---------------------------- MODULE Spec2Model ----------------------------
(***************************************************************************)
(* State-machine model of the ViteAzureApp front end: the GraphService     *)
(* singleton (session / token manager and directory API client) of         *)
(* src/services/graphService.ts, and the page components that drive it.    *)
(*                                                                         *)
(* Every `await` of the source is a step boundary: a call is a process     *)
(* whose pc names the promise it is suspended on, and the completion of    *)
(* that promise (chosen by the environment: the authentication library,    *)
(* the directory API) is the action that resumes it.                       *)
(*                                                                         *)
(* Strings that the code inspects (error messages) are sequences of words, *)
(* so that String.includes is a computed sub-sequence search.              *)
(***************************************************************************)
EXTENDS Integers, Sequences, FiniteSets, TLC

(***************************************************************************)
(* Bounds of the model                                                     *)
(***************************************************************************)
\* number of access tokens the identity provider hands out in one run
MaxTokens == 2

\* longest list of service principals the directory API returns
MaxSPs == 3

\* longest list of app role assignments the directory API returns
MaxAssignments == 3

\* the temporary access passes the directory issues in a run
MaxPasses == 2

(***************************************************************************)
(* Values                                                                  *)
(***************************************************************************)
None == [t |-> "none"]

Some(v) == [t |-> "some", val |-> v]

\* concurrent callers of the service (event handlers, mount effects)
Procs == {1, 2}

\* identities that can sign in through the popup
Users == {"alice", "bob"}

Account(u) == [t |-> "account", username |-> u]

Token(n, u) == [t |-> "token", id |-> n, account |-> u]

Ok(v) == [t |-> "ok", val |-> v]

Err(e) == [t |-> "err", err |-> e]

\* a thrown value: its class (for instanceof), statusCode (0: the property
\* is absent) and message ("" is the empty sequence of words)
Error(cls, status, msg) == [cls |-> cls, statusCode |-> status, message |-> msg]

(***************************************************************************)
(* Permission scopes                                                       *)
(***************************************************************************)
LoginScopes ==
    { "User.Read", "User.ReadWrite", "User.ReadBasic.All",
      "UserAuthenticationMethod.ReadWrite.All", "Application.Read.All",
      "Application.ReadWrite.All", "AppRoleAssignment.ReadWrite.All" }

\* the token scopes with a scope that login never asked consent for
SilentScopesWider == LoginScopes \cup {"Directory.ReadWrite.All"}

SilentScopes ==
    { "User.Read", "User.ReadWrite",
      "UserAuthenticationMethod.ReadWrite.All", "Application.Read.All",
      "Application.ReadWrite.All", "AppRoleAssignment.ReadWrite.All" }

PopupScopes ==
    { "User.Read", "User.ReadWrite",
      "UserAuthenticationMethod.ReadWrite.All", "Application.Read.All",
      "Application.ReadWrite.All", "AppRoleAssignment.ReadWrite.All" }

(***************************************************************************)
(* Failures of the authentication library                                  *)
(***************************************************************************)
NoActiveAccount ==
    Error("Error", 0, <<"No", "active", "account.", "Please", "log", "in", "first.">>)

ConsentRequired ==
    Error("InteractionRequiredAuthError", 0, <<"consent_required">>)

SilentErrors ==
    { ConsentRequired,
      Error("BrowserAuthError", 0, <<"no_network_connectivity">>),
      Error("ClientAuthError", 0, <<"token_refresh_required">>) }

PopupErrors ==
    { Error("BrowserAuthError", 0, <<"user_cancelled">>),
      Error("BrowserAuthError", 0, <<"popup_window_error">>) }


\* failures of a directory API request (a GraphError carries the HTTP status
\* and the message of the response's error body, which may be empty)
GraphErrors ==
    { Error("GraphError", st, m) :
        st \in {400, 401, 403, 404, 500},
        m \in { <<>>, <<"Insufficient", "privileges">>,
                <<"Permission", "already", "exists">> } }

\* the response to a request whose bearer token has expired
Unauthorized == Error("GraphError", 401, <<"Access", "token", "has", "expired">>)

(***************************************************************************)
(* State                                                                   *)
(***************************************************************************)
VARIABLES
    initState,     \* the promise of msalInstance.initialize()
    accounts,      \* msalInstance.getAllAccounts(): the cached accounts
    graphClient,   \* GraphService.graphClient: None, or the token it captured
    nextToken,     \* tokens issued so far by the identity provider
    expired,       \* ids of issued tokens that are no longer accepted
    proc,          \* the calls in progress, one per caller
    directory,     \* the user profiles held by the (stub) directory API
    lastUpdate,    \* the last PATCH the directory API applied (history)
    passes,        \* the temporary access passes issued so far, in order
    page,          \* the useState cells of TemporaryAccessPassPage
    handler,       \* the async handler of the page that is suspended, if any
    retired,       \* the secrets held when their view was replaced (history)
    env,           \* import.meta.env: the configuration the bundle was built with
    app,           \* the browser tab: startup, location, what is rendered
    admin          \* the useState cells of AdminPage and its suspended handler

svcVars == <<initState, accounts, graphClient, nextToken, expired, proc>>

stubVars == <<directory, lastUpdate>>

pageVars == <<page, handler, retired>>

\* what the operations of the session manager leave alone
appVars == <<env, app, admin>>

nonServiceVars == <<stubVars, passes, pageVars, appVars>>

vars == <<svcVars, stubVars, passes, pageVars, appVars>>

\* the profile fields of the model: three of the updatable fields of
\* UpdateUserProfileData, and two that no update can name
UpdatableFields == {"displayName", "jobTitle", "department"}

ProfileFields == {"id", "mail"} \cup UpdatableFields

\* the profiles of the stub directory before any update
InitialDirectory ==
    [u \in Users |->
       [f \in ProfileFields |-> IF f = "id" THEN u ELSE IF u = "alice" THEN "A" ELSE "B"]]

\* a string of n characters c
Rep(c, n) == [i \in 1..n |-> c]

\* a string of GUID shape whose digits are all c
GuidOf(c) ==
    Rep(c, 8) \o <<"-">> \o Rep(c, 4) \o <<"-">> \o Rep(c, 4) \o <<"-">>
      \o Rep(c, 4) \o <<"-">> \o Rep(c, 12)

RequiredEnvVars ==
    <<"VITE_AZURE_CLIENT_ID", "VITE_AZURE_TENANT_ID", "VITE_AZURE_REDIRECT_URI">>

\* a configuration that is complete and well formed
ValidEnv ==
    [ VITE_AZURE_CLIENT_ID |-> Some(GuidOf("a")),
      VITE_AZURE_TENANT_ID |-> Some(GuidOf("b")),
      VITE_AZURE_REDIRECT_URI |-> Some(<<"http", ":", "//", "localhost">>) ]

\* the tab before the bundle has run: which App the entry point imports
\* (the one with or the one without ProtectedRoute), nothing rendered
InitialApp ==
    [ build |-> "App.tsx", phase |-> "load", validation |-> None,
      notice |-> None, location |-> "/", screen |-> "none",
      authAtRender |-> FALSE, userName |-> None, pc |-> "idle",
      test |-> [ isAuthenticated |-> FALSE, loading |-> FALSE, error |-> None,
                 userProfile |-> None ] ]

\* TemporaryAccessPassPage as it is first rendered
InitialPage ==
    [ searchTerm |-> <<>>, searchResults |-> <<>>, selectedUser |-> None,
      loading |-> FALSE, error |-> None, tapResult |-> None,
      lifetimeMinutes |-> <<"6", "0">>, isUsableOnce |-> TRUE ]

\* no handler of the page is suspended
IdleHandler == [pc |-> "idle", user |-> None, response |-> None]

\* the useState cells of AdminPage at mount; pc is the await its handler is
\* suspended on and closure the render whose cells that handler reads
InitialAdmin ==
    [ servicePrincipalId |-> "",
      permissionName |-> "UserAuthenticationMethod.ReadWrite.All",
      loading |-> FALSE, loadingPermissions |-> FALSE,
      error |-> None, success |-> None, spInfo |-> None,
      currentPermissions |-> <<>>, pc |-> "idle", closure |-> None ]

IdleProc ==
    [ pc |-> "idle", kind |-> "none", arg |-> None, sawClient |-> FALSE,
      loginReq |-> None, silentReq |-> None, silentRes |-> None,
      popupReq |-> None, client |-> None, resp |-> None, results |-> <<>>,
      pending |-> {}, failed |-> {}, caught |-> None, out |-> None ]

Init ==
    /\ initState = "Initializing"
    /\ accounts \in {<<>>, <<"alice">>}
    /\ graphClient = None
    /\ nextToken = 0
    /\ expired = {}
    /\ proc = [p \in Procs |-> IdleProc]
    /\ directory = InitialDirectory
    /\ lastUpdate = None
    /\ passes = <<>>
    /\ page = InitialPage
    /\ handler = IdleHandler
    /\ retired = {}
    /\ env = ValidEnv
    /\ app = InitialApp
    /\ admin = InitialAdmin

(***************************************************************************)
(* Session / token manager                                                 *)
(***************************************************************************)
\* getAccount(): the first cached account, or none
getAccount == IF Len(accounts) > 0 THEN Account(accounts[1]) ELSE None

\* a session judged by the cached client instead of the cached accounts
IsAuthenticatedByClient == graphClient # None

\* isAuthenticated()
isAuthenticated == Len(accounts) > 0

\* String.prototype.includes on messages: pat occurs in msg
Includes(msg, pat) ==
    \E i \in 0..(Len(msg) - Len(pat)) : SubSeq(msg, i + 1, i + Len(pat)) = pat

PermissionDeniedTAP ==
    Error("Error", 0,
      <<"Permission", "denied.", "The", "app", "needs",
        "UserAuthenticationMethod.ReadWrite.All", "permission", "with", "admin",
        "consent.", "Please", "contact", "your", "Azure", "AD", "administrator.">>)

AuthenticationFailedTAP ==
    Error("Error", 0,
      <<"Authentication", "failed.", "Please", "sign", "out", "and", "sign", "back",
        "in", "to", "refresh", "your", "permissions.">>)

FailedToGenerateTAP(msg) ==
    Error("Error", 0, <<"Failed", "to", "generate", "TAP:">> \o msg)

\* a catch block that treats every 4xx status as a missing permission
CatchCreateTemporaryAccessPassAny4xx(e) ==
    IF e.statusCode \in {401, 403} THEN PermissionDeniedTAP
    ELSE IF e.message # <<>> THEN FailedToGenerateTAP(e.message)
    ELSE e

\* the catch block of createTemporaryAccessPass
CatchCreateTemporaryAccessPass(e) ==
    IF e.statusCode = 403 THEN PermissionDeniedTAP
    ELSE IF e.statusCode = 401 THEN AuthenticationFailedTAP
    ELSE IF e.message # <<>> THEN FailedToGenerateTAP(e.message)
    ELSE e

PermissionDeniedGrant ==
    Error("Error", 0,
      <<"Permission", "denied.", "You", "need", "Application.ReadWrite.All", "and",
        "AppRoleAssignment.ReadWrite.All", "permissions", "to", "grant",
        "permissions", "to", "service", "principals.">>)

AlreadyGranted ==
    Error("Error", 0,
      <<"This", "permission", "has", "already", "been", "granted", "to", "the",
        "service", "principal.">>)

FailedToGrant(msg) ==
    Error("Error", 0, <<"Failed", "to", "grant", "permission:">> \o msg)

\* a catch block that tests the message alone for "already exists", whatever
\* the status, before it tests for 403
CatchGrantAppRoleExistsFirst(e) ==
    IF Includes(e.message, <<"already", "exists">>) THEN AlreadyGranted
    ELSE IF e.statusCode = 403 THEN PermissionDeniedGrant
    ELSE IF e.message # <<>> THEN FailedToGrant(e.message)
    ELSE e

\* the catch block of grantAppRoleToServicePrincipal
CatchGrantAppRole(e) ==
    IF e.statusCode = 403 THEN PermissionDeniedGrant
    ELSE IF e.statusCode = 400 /\ Includes(e.message, <<"already", "exists">>)
      THEN AlreadyGranted
    ELSE IF e.message # <<>> THEN FailedToGrant(e.message)
    ELSE e

ServicePrincipalNotFound ==
    Error("Error", 0,
      <<"Service", "principal", "not", "found.", "Please", "verify", "the", "object",
        "ID.">>)

PermissionDeniedRead ==
    Error("Error", 0,
      <<"Permission", "denied.", "You", "need", "Application.Read.All",
        "permission.">>)

PermissionDeniedList ==
    Error("Error", 0,
      <<"Permission", "denied.", "You", "need", "Application.Read.All",
        "permission", "to", "list", "service", "principals.">>)

\* a catch block that reports every client error of the lookup as not-found
CatchGetServicePrincipalInfoAny4xx(e) ==
    IF e.statusCode \in 400..499 THEN ServicePrincipalNotFound ELSE e

\* the catch block of getServicePrincipalInfo
CatchGetServicePrincipalInfo(e) ==
    IF e.statusCode = 404 THEN ServicePrincipalNotFound
    ELSE IF e.statusCode = 403 THEN PermissionDeniedRead
    ELSE e

\* the catch block of getServicePrincipalAppRoleAssignments
CatchGetAppRoleAssignments(e) ==
    IF e.statusCode = 403 THEN PermissionDeniedRead ELSE e

\* the catch block of listServicePrincipals
CatchListServicePrincipals(e) ==
    IF e.statusCode = 403 THEN PermissionDeniedList ELSE e

\* the catch block of each operation: the value it throws for a caught e
\* (listManagedIdentities rethrows what listServicePrincipals threw; the
\* profile operations rethrow what they caught)
Catch(kind, e) ==
    CASE kind = "createTemporaryAccessPass" -> CatchCreateTemporaryAccessPass(e)
      [] kind = "grantAppRoleToServicePrincipal" -> CatchGrantAppRole(e)
      [] kind = "getServicePrincipalInfo" -> CatchGetServicePrincipalInfo(e)
      [] kind = "getServicePrincipalAppRoleAssignments" -> CatchGetAppRoleAssignments(e)
      [] kind \in {"listServicePrincipals", "listManagedIdentities"} ->
            CatchListServicePrincipals(e)
      [] OTHER -> e

\* what a call does once a value is thrown inside its try block
Throw(p, e) ==
    proc' = [proc EXCEPT ![p].pc = "done", ![p].caught = Err(e),
                         ![p].out = Err(Catch(proc[p].kind, e))]

\* msalInstance.initialize() resolves
InitializeDone ==
    /\ initState = "Initializing"
    /\ initState' = "Ready"
    /\ UNCHANGED <<accounts, graphClient, nextToken, expired, proc>>
    /\ UNCHANGED nonServiceVars

\* a client that is rebuilt on every use
NeverUsesCachedClient == FALSE

\* getGraphClient(): the cached client, or the start of a token acquisition
UsesCachedClient == graphClient # None

\* a caller starts an operation of the directory client; it runs up to its
\* first await: the request of the cached client, or ensureInitialized()
StartApi(p, kind, arg) ==
    proc' = [proc EXCEPT ![p] =
          IF UsesCachedClient
            THEN [IdleProc EXCEPT !.pc = "http", !.kind = kind, !.arg = arg,
                                  !.sawClient = TRUE, !.client = graphClient]
            ELSE [IdleProc EXCEPT !.pc = "init", !.kind = kind, !.arg = arg]]

\* an operation of the directory client called by a caller that is not a page
CallApi(p, kind, arg) ==
    /\ proc[p].pc = "idle"
    /\ StartApi(p, kind, arg)
    /\ UNCHANGED <<initState, accounts, graphClient, nextToken, expired>>
    /\ UNCHANGED nonServiceVars

\* login() / logout() start: both await ensureInitialized() first
StartSession(p, kind) ==
    proc' = [proc EXCEPT ![p] = [IdleProc EXCEPT !.pc = "init", !.kind = kind]]

\* login() / logout() called by a caller that is not a page
CallSession(p, kind) ==
    /\ proc[p].pc = "idle"
    /\ kind \in {"login", "logout"}
    /\ StartSession(p, kind)
    /\ UNCHANGED <<initState, accounts, graphClient, nextToken, expired>>
    /\ UNCHANGED nonServiceVars

\* login() after ensureInitialized(): loginPopup with the login scopes
LoginAfterInit(p) ==
    proc' = [proc EXCEPT ![p].pc = "loginPopup",
                         ![p].loginReq = [scopes |-> LoginScopes]]

\* a logout() that rejects when there is no account
LogoutAfterInitThrows(p) ==
    IF Len(accounts) > 0
      THEN proc' = [proc EXCEPT ![p].pc = "logoutPopup",
                                ![p].arg = Account(accounts[1])]
      ELSE Throw(p, NoActiveAccount)

\* logout() after ensureInitialized(): logoutPopup for the first account
LogoutAfterInit(p) ==
    IF Len(accounts) > 0
      THEN proc' = [proc EXCEPT ![p].pc = "logoutPopup",
                                ![p].arg = Account(accounts[1])]
      ELSE proc' = [proc EXCEPT ![p].pc = "done", ![p].out = Ok(None)]

\* getAccessToken() after ensureInitialized(): the account check, then
\* acquireTokenSilent with the token scopes and the account
TokenAfterInit(p) ==
    IF getAccount = None
      THEN Throw(p, NoActiveAccount)
      ELSE proc' = [proc EXCEPT ![p].pc = "silent",
                     ![p].silentReq = [scopes |-> SilentScopes, account |-> getAccount]]

\* an ensureInitialized() that does not await the promise of initialize()
EnsureInitializedNotAwaited(p) ==
    /\ proc[p].pc = "init"
    /\ CASE proc[p].kind = "login" -> LoginAfterInit(p)
         [] proc[p].kind = "logout" -> LogoutAfterInit(p)
         [] OTHER -> TokenAfterInit(p)
    /\ UNCHANGED <<initState, accounts, graphClient, nextToken, expired>>
    /\ UNCHANGED nonServiceVars

\* a call suspended on ensureInitialized() resumes
EnsureInitialized(p) ==
    /\ proc[p].pc = "init"
    /\ initState = "Ready"
    /\ CASE proc[p].kind = "login" -> LoginAfterInit(p)
         [] proc[p].kind = "logout" -> LogoutAfterInit(p)
         [] OTHER -> TokenAfterInit(p)
    /\ UNCHANGED <<initState, accounts, graphClient, nextToken, expired>>
    /\ UNCHANGED nonServiceVars

\* getGraphClient() after getAccessToken() returned tok: the client is built
\* around the token and stored, and the operation sends its request
ClientCreated(p, tok) ==
    /\ graphClient' = tok
    /\ proc' = [proc EXCEPT ![p].pc = "http", ![p].client = tok]

\* a silent success that is followed by the consent prompt all the same
AcquireTokenSilentOkPrompting(p) ==
    /\ proc[p].pc = "silent"
    /\ nextToken < MaxTokens
    /\ nextToken' = nextToken + 1
    /\ proc' = [proc EXCEPT ![p].pc = "popup",
                  ![p].silentRes = Ok(Token(nextToken + 1, proc[p].silentReq.account.username)),
                  ![p].popupReq = [scopes |-> PopupScopes,
                                   account |-> proc[p].silentReq.account]]
    /\ UNCHANGED <<initState, accounts, graphClient, expired>>
    /\ UNCHANGED nonServiceVars

\* acquireTokenSilent resolves with a token
AcquireTokenSilentOk(p) ==
    /\ proc[p].pc = "silent"
    /\ nextToken < MaxTokens
    /\ nextToken' = nextToken + 1
    /\ LET tok == Token(nextToken + 1, proc[p].silentReq.account.username)
       IN  /\ graphClient' = tok
           /\ proc' = [proc EXCEPT ![p].pc = "http", ![p].client = tok,
                                   ![p].silentRes = Ok(tok)]
    /\ UNCHANGED <<initState, accounts, expired>>
    /\ UNCHANGED nonServiceVars

\* a catch block that prompts on every silent failure
FallsBackOnAnyError(e) == TRUE

\* whether the catch block of getAccessToken falls back to the popup
FallsBackToPopup(e) == e.cls = "InteractionRequiredAuthError"

\* a getAccessToken that drops the cached accounts when the silent
\* acquisition fails
AcquireTokenSilentFailSignsOut(p, e) ==
    /\ proc[p].pc = "silent"
    /\ accounts' = <<>>
    /\ proc' = [proc EXCEPT ![p].pc = "done", ![p].silentRes = Err(e),
                  ![p].caught = Err(e), ![p].out = Err(Catch(proc[p].kind, e))]
    /\ UNCHANGED <<initState, graphClient, nextToken, expired>>
    /\ UNCHANGED nonServiceVars

\* acquireTokenSilent rejects: the popup fallback, or the error rethrown
AcquireTokenSilentFail(p, e) ==
    /\ proc[p].pc = "silent"
    /\ IF FallsBackToPopup(e)
         THEN proc' = [proc EXCEPT ![p].pc = "popup", ![p].silentRes = Err(e),
                         ![p].popupReq = [scopes |-> PopupScopes,
                                          account |-> proc[p].silentReq.account]]
         ELSE proc' = [proc EXCEPT ![p].pc = "done", ![p].silentRes = Err(e),
                         ![p].caught = Err(e),
                         ![p].out = Err(Catch(proc[p].kind, e))]
    /\ UNCHANGED <<initState, accounts, graphClient, nextToken, expired>>
    /\ UNCHANGED nonServiceVars

\* acquireTokenPopup resolves with a token
AcquireTokenPopupOk(p) ==
    /\ proc[p].pc = "popup"
    /\ nextToken < MaxTokens
    /\ nextToken' = nextToken + 1
    /\ ClientCreated(p, Token(nextToken + 1, proc[p].popupReq.account.username))
    /\ UNCHANGED <<initState, accounts, expired>>
    /\ UNCHANGED nonServiceVars

\* a getAccessToken that starts over with the silent acquisition when the
\* popup fails
AcquireTokenPopupFailRetries(p, e) ==
    /\ proc[p].pc = "popup"
    /\ proc' = [proc EXCEPT ![p].pc = "silent"]
    /\ UNCHANGED <<initState, accounts, graphClient, nextToken, expired>>
    /\ UNCHANGED nonServiceVars

\* a getGraphClient that stores a client although the popup failed
AcquireTokenPopupFailCachesClient(p, e) ==
    /\ proc[p].pc = "popup"
    /\ Throw(p, e)
    /\ graphClient' = Token(nextToken, proc[p].popupReq.account.username)
    /\ UNCHANGED <<initState, accounts, nextToken, expired>>
    /\ UNCHANGED nonServiceVars

\* acquireTokenPopup rejects: the error leaves getAccessToken
AcquireTokenPopupFail(p, e) ==
    /\ proc[p].pc = "popup"
    /\ Throw(p, e)
    /\ UNCHANGED <<initState, accounts, graphClient, nextToken, expired>>
    /\ UNCHANGED nonServiceVars

\* the account cache after a successful interactive sign-in of u
AddAccount(u) ==
    IF \E i \in 1..Len(accounts) : accounts[i] = u THEN accounts ELSE Append(accounts, u)

\* the account cache after the sign-out of u
RemoveAccount(u) == SelectSeq(accounts, LAMBDA a : a # u)

\* loginPopup resolves: login() returns the account
LoginPopupOk(p, u) ==
    /\ proc[p].pc = "loginPopup"
    /\ accounts' = AddAccount(u)
    /\ proc' = [proc EXCEPT ![p].pc = "done", ![p].out = Ok(Account(u))]
    /\ UNCHANGED <<initState, graphClient, nextToken, expired>>
    /\ UNCHANGED nonServiceVars

\* loginPopup rejects: login() logs and rethrows
LoginPopupFail(p, e) ==
    /\ proc[p].pc = "loginPopup"
    /\ proc' = [proc EXCEPT ![p].pc = "done", ![p].out = Err(e)]
    /\ UNCHANGED <<initState, accounts, graphClient, nextToken, expired>>
    /\ UNCHANGED nonServiceVars

\* logoutPopup resolves
LogoutPopupOk(p) ==
    /\ proc[p].pc = "logoutPopup"
    /\ accounts' = RemoveAccount(proc[p].arg.username)
    /\ proc' = [proc EXCEPT ![p].pc = "done", ![p].out = Ok(None)]
    /\ UNCHANGED <<initState, graphClient, nextToken, expired>>
    /\ UNCHANGED nonServiceVars

\* logoutPopup rejects
LogoutPopupFail(p, e) ==
    /\ proc[p].pc = "logoutPopup"
    /\ proc' = [proc EXCEPT ![p].pc = "done", ![p].out = Err(e)]
    /\ UNCHANGED <<initState, accounts, graphClient, nextToken, expired>>
    /\ UNCHANGED nonServiceVars

\* the caller takes the result of a finished call
Return(p) ==
    /\ proc[p].pc = "done"
    /\ proc' = [proc EXCEPT ![p] = IdleProc]
    /\ UNCHANGED <<initState, accounts, graphClient, nextToken, expired>>
    /\ UNCHANGED nonServiceVars

\* an issued token reaches the end of its lifetime
ExpireToken(n) ==
    /\ n \in 1..nextToken
    /\ n \notin expired
    /\ expired' = expired \cup {n}
    /\ UNCHANGED <<initState, accounts, graphClient, nextToken, proc>>
    /\ UNCHANGED nonServiceVars

(***************************************************************************)
(* Directory API client: requests                                          *)
(***************************************************************************)
\* whether the directory API accepts the bearer token of p's client
TokenAccepted(p) == proc[p].client.id \notin expired

\* the failures the directory API can answer p's request with
PossibleFailures(p) == IF TokenAccepted(p) THEN GraphErrors ELSE {Unauthorized}

\* the request failures drawn for the profile operations, which rethrow
\* whatever they catch
RethrownFailures ==
    { Unauthorized, Error("GraphError", 403, <<"Insufficient", "privileges">>) }

\* GET /me answers: getCurrentUserProfile returns the body
GetMeOk(p) ==
    /\ proc[p].pc = "http"
    /\ proc[p].kind = "getCurrentUserProfile"
    /\ TokenAccepted(p)
    /\ proc' = [proc EXCEPT ![p].pc = "done",
                            ![p].out = Ok(directory[proc[p].client.account])]
    /\ UNCHANGED <<initState, accounts, graphClient, nextToken, expired>>
    /\ UNCHANGED nonServiceVars

\* a request fails: the catch block of the operation runs
HttpFail(p, e) ==
    /\ proc[p].pc \in {"http", "post"}
    /\ e \in PossibleFailures(p)
    /\ Throw(p, e)
    /\ UNCHANGED <<initState, accounts, graphClient, nextToken, expired>>
    /\ UNCHANGED nonServiceVars

(***************************************************************************)
(* Directory API client: temporary access pass                             *)
(***************************************************************************)
\* a JavaScript number, and the number that is not one
Num(n) == [t |-> "num", val |-> n]

NaN == [t |-> "NaN"]

\* the secret of the n-th pass the directory generates: a new one each time
Secret(n) == n

\* POST /users/{id}/authentication/temporaryAccessPassMethods answers:
\* createTemporaryAccessPass returns the created method
PostTapOk(p) ==
    /\ proc[p].pc = "http"
    /\ proc[p].kind = "createTemporaryAccessPass"
    /\ TokenAccepted(p)
    /\ Len(passes) < MaxPasses
    /\ passes' = Append(passes, [userId |-> proc[p].arg.userId])
    /\ proc' = [proc EXCEPT ![p].pc = "done",
          ![p].out = Ok([ temporaryAccessPass |-> Secret(Len(passes) + 1),
                          lifetimeInMinutes |-> proc[p].arg.lifetimeInMinutes,
                          isUsableOnce |-> proc[p].arg.isUsableOnce ])]
    /\ UNCHANGED <<initState, accounts, graphClient, nextToken, expired>>
    /\ UNCHANGED <<stubVars, pageVars, appVars>>

(***************************************************************************)
(* Directory API client: granting an app role                              *)
(***************************************************************************)
\* the app roles of the directory API's own service principal
GraphAppRoles ==
    << [ id |-> "role-uam", value |-> "UserAuthenticationMethod.ReadWrite.All",
         displayName |-> "Manage authentication methods", description |-> "" ],
       [ id |-> "role-urw", value |-> "User.ReadWrite.All",
         displayName |-> "Read and write all users", description |-> "Full profiles" ] >>

\* the bodies GET /servicePrincipals?$filter=appId eq '00000003-...' can have:
\* no value, an empty value, or the directory API's service principal
GraphSPLookups ==
    { None, Some(<<>>),
      Some(<< [id |-> "sp-graph", appRoles |-> GraphAppRoles] >>) }

\* a search that takes the first role whatever its value
FindRoleFirst(roles, name) ==
    IF Len(roles) > 0 THEN roles[1] ELSE None

\* Array.prototype.find by role value: the first match, or None
FindRoleByValue(roles, name) ==
    IF \E i \in 1..Len(roles) : roles[i].value = name
      THEN roles[CHOOSE i \in 1..Len(roles) :
                   /\ roles[i].value = name
                   /\ \A j \in 1..(i - 1) : roles[j].value # name]
      ELSE None

GraphSPNotFound ==
    Error("Error", 0, <<"Microsoft", "Graph", "service", "principal", "not", "found">>)

AppRoleNotFound(name) ==
    Error("Error", 0, <<"App", "role", name, "not", "found">>)

\* the lookup of the directory API's service principal answers: the role is
\* searched and the role assignment is posted
GrantLookupOk(p, body) ==
    /\ proc[p].pc = "http"
    /\ proc[p].kind = "grantAppRoleToServicePrincipal"
    /\ TokenAccepted(p)
    /\ IF body = None \/ Len(body.val) = 0
         THEN Throw(p, GraphSPNotFound)
         ELSE LET graphServicePrincipal == body.val[1]
                  appRole == FindRoleByValue(graphServicePrincipal.appRoles,
                                             proc[p].arg.appRoleName)
              IN  IF appRole = None
                    THEN Throw(p, AppRoleNotFound(proc[p].arg.appRoleName))
                    ELSE proc' = [proc EXCEPT ![p].pc = "post",
                           ![p].resp =
                              [ principalId |-> proc[p].arg.servicePrincipalObjectId,
                                resourceId |-> graphServicePrincipal.id,
                                appRoleId |-> appRole.id ]]
    /\ UNCHANGED <<initState, accounts, graphClient, nextToken, expired>>
    /\ UNCHANGED nonServiceVars

\* POST /servicePrincipals/{id}/appRoleAssignments answers with the assignment
GrantPostOk(p) ==
    /\ proc[p].pc = "post"
    /\ TokenAccepted(p)
    /\ proc' = [proc EXCEPT ![p].pc = "done", ![p].out = Ok(proc[p].resp)]
    /\ UNCHANGED <<initState, accounts, graphClient, nextToken, expired>>
    /\ UNCHANGED nonServiceVars

(***************************************************************************)
(* Directory API client: service principals                                *)
(***************************************************************************)
ObjectIds == {"sp-1", "sp-2"}

\* GET /servicePrincipals/{id} answers
GetServicePrincipalOk(p) ==
    /\ proc[p].pc = "http"
    /\ proc[p].kind = "getServicePrincipalInfo"
    /\ TokenAccepted(p)
    /\ proc' = [proc EXCEPT ![p].pc = "done",
          ![p].out = Ok([id |-> proc[p].arg.objectId, displayName |-> "Logic App"])]
    /\ UNCHANGED <<initState, accounts, graphClient, nextToken, expired>>
    /\ UNCHANGED nonServiceVars

LegacyTag == "WindowsAzureActiveDirectoryIntegratedApp"

\* the service principal summaries the directory API can list; tags may be
\* missing from a record
SPRecords ==
    { [servicePrincipalType |-> ty, tags |-> tg] :
        ty \in {"ManagedIdentity", "Application"},
        tg \in {None, Some(<<LegacyTag>>), Some(<<"HideApp">>)} }

\* Array.prototype.includes
ArrayIncludes(arr, x) == \E i \in 1..Len(arr) : arr[i] = x

\* a filter that wants the type and the tag together
IsManagedIdentityBoth(sp) ==
    /\ sp.servicePrincipalType = "ManagedIdentity"
    /\ sp.tags # None /\ ArrayIncludes(sp.tags.val, LegacyTag)

\* the filter predicate of listManagedIdentities (tags?.includes is falsy on
\* a record without tags)
IsManagedIdentity(sp) ==
    \/ sp.servicePrincipalType = "ManagedIdentity"
    \/ (sp.tags # None /\ ArrayIncludes(sp.tags.val, LegacyTag))

\* the sequences over S of length at most n
SeqsUpTo(S, n) == UNION { [1..k -> S] : k \in 0..n }

\* the bodies GET /servicePrincipals can have: no value, or a list
ListBodies == {None} \cup {Some(l) : l \in SeqsUpTo(SPRecords, MaxSPs)}

\* GET /servicePrincipals answers: listServicePrincipals returns value || [],
\* which listManagedIdentities filters
ListServicePrincipalsOk(p) ==
    /\ proc[p].pc = "http"
    /\ proc[p].kind \in {"listServicePrincipals", "listManagedIdentities"}
    /\ TokenAccepted(p)
    /\ \E body \in ListBodies :
         LET allServicePrincipals == IF body = None THEN <<>> ELSE body.val
         IN  proc' = [proc EXCEPT ![p].pc = "done", ![p].resp = body,
                ![p].out = IF proc[p].kind = "listManagedIdentities"
                             THEN Ok(SelectSeq(allServicePrincipals, IsManagedIdentity))
                             ELSE Ok(allServicePrincipals)]
    /\ UNCHANGED <<initState, accounts, graphClient, nextToken, expired>>
    /\ UNCHANGED nonServiceVars

(***************************************************************************)
(* Directory API client: app role assignments and their enrichment         *)
(***************************************************************************)
\* the assignments a service principal can have
AssignmentRecords ==
    { [principalId |-> "sp-1", resourceId |-> r, appRoleId |-> a] :
        r \in {"sp-graph", "sp-custom"}, a \in {"role-urw", "role-zzz"} }

\* the body of GET /servicePrincipals/{resourceId}?$select=displayName,appRoles
\* (a resource may come without appRoles)
Resource(resourceId) ==
    IF resourceId = "sp-graph"
      THEN [displayName |-> "Microsoft Graph", appRoles |-> Some(GraphAppRoles)]
      ELSE [displayName |-> "Custom API", appRoles |-> None]

\* resource.appRoles?.find(role => role.id === appRoleId)
FindRoleById(appRoles, appRoleId) ==
    IF appRoles # None /\ \E i \in 1..Len(appRoles.val) : appRoles.val[i].id = appRoleId
      THEN appRoles.val[CHOOSE i \in 1..Len(appRoles.val) :
                          /\ appRoles.val[i].id = appRoleId
                          /\ \A j \in 1..(i - 1) : appRoles.val[j].id # appRoleId]
      ELSE None

\* the record the enrichment callback returns for an assignment whose resource
\* lookup answered (x?.f || d: the default d for a missing role or empty f)
Enriched(assignment, resource) ==
    LET appRole == FindRoleById(resource.appRoles, assignment.appRoleId)
    IN  [ resourceDisplayName |-> resource.displayName,
          appRoleValue |->
             IF appRole = None \/ appRole.value = "" THEN "Unknown" ELSE appRole.value,
          appRoleDisplayName |->
             IF appRole = None \/ appRole.displayName = "" THEN "Unknown"
             ELSE appRole.displayName,
          appRoleDescription |->
             IF appRole = None THEN "" ELSE appRole.description ] @@ assignment

\* results kept in the order the lookups complete
StoreInCompletionOrder(results, i, v) ==
    LET k == CHOOSE j \in 1..Len(results) :
               /\ results[j] = None
               /\ \A h \in 1..(j - 1) : results[h] # None
    IN  [results EXCEPT ![k] = v]

\* Promise.all: the value of the i-th promise is the i-th result
StoreResult(results, i, v) == [results EXCEPT ![i] = v]

\* the bodies GET /servicePrincipals/{id}/appRoleAssignments can have
AssignmentBodies ==
    {None} \cup {Some(l) : l \in SeqsUpTo(AssignmentRecords, MaxAssignments)}

\* GET /servicePrincipals/{id}/appRoleAssignments answers: one resource lookup
\* is started per assignment of (value || [])
AssignmentsAnswer(p, body) ==
    /\ proc[p].pc = "http"
    /\ proc[p].kind = "getServicePrincipalAppRoleAssignments"
    /\ TokenAccepted(p)
    /\ LET assignments == IF body = None THEN <<>> ELSE body.val
       IN  proc' = [proc EXCEPT ![p].pc = "enrich", ![p].resp = Some(assignments),
                      ![p].results = [i \in 1..Len(assignments) |-> None],
                      ![p].pending = 1..Len(assignments)]
    /\ UNCHANGED <<initState, accounts, graphClient, nextToken, expired>>
    /\ UNCHANGED nonServiceVars

\* the same, with any of the bodies
AssignmentsOk(p) == \E body \in AssignmentBodies : AssignmentsAnswer(p, body)

\* the resource lookup of assignment i answers
EnrichOk(p, i) ==
    /\ proc[p].pc = "enrich"
    /\ i \in proc[p].pending
    /\ TokenAccepted(p)
    /\ LET assignment == proc[p].resp.val[i]
       IN  proc' = [proc EXCEPT ![p].pending = @ \ {i},
              ![p].results = StoreResult(@, i,
                                Enriched(assignment, Resource(assignment.resourceId)))]
    /\ UNCHANGED <<initState, accounts, graphClient, nextToken, expired>>
    /\ UNCHANGED nonServiceVars

\* the resource lookup of assignment i fails: the inner catch returns the
\* assignment as it is
EnrichFail(p, i, e) ==
    /\ proc[p].pc = "enrich"
    /\ i \in proc[p].pending
    /\ e \in PossibleFailures(p)
    /\ proc' = [proc EXCEPT ![p].pending = @ \ {i}, ![p].failed = @ \cup {i},
                  ![p].results = StoreResult(@, i, proc[p].resp.val[i])]
    /\ UNCHANGED <<initState, accounts, graphClient, nextToken, expired>>
    /\ UNCHANGED nonServiceVars

\* every lookup has settled: Promise.all resolves and the list is returned
EnrichmentsDone(p) ==
    /\ proc[p].pc = "enrich"
    /\ proc[p].pending = {}
    /\ proc' = [proc EXCEPT ![p].pc = "done", ![p].out = Ok(proc[p].results)]
    /\ UNCHANGED <<initState, accounts, graphClient, nextToken, expired>>
    /\ UNCHANGED nonServiceVars

(***************************************************************************)
(* Specification of the directory client operations, one caller            *)
(***************************************************************************)
\* the arguments the caller passes
TapArgs ==
    { [userId |-> u, lifetimeInMinutes |-> Num(60), isUsableOnce |-> o] :
        u \in Users, o \in BOOLEAN }

GrantArgs ==
    { [servicePrincipalObjectId |-> o, appRoleName |-> r] :
        o \in {"sp-1"},
        r \in {"UserAuthenticationMethod.ReadWrite.All", "Directory.ReadWrite.All"} }

DirCalls ==
    ({"createTemporaryAccessPass"} \X TapArgs)
      \cup ({"grantAppRoleToServicePrincipal"} \X GrantArgs)
      \cup ({"getServicePrincipalInfo", "getServicePrincipalAppRoleAssignments"}
               \X {[objectId |-> "sp-1"]})
      \cup ({"listServicePrincipals", "listManagedIdentities"} \X {None})

\* the failures of a resource lookup drawn in this specification (the inner
\* catch ignores which one it is)
EnrichFailures == {Unauthorized, Error("GraphError", 404, <<>>)}

\* the only caller of this specification
Caller == 1

NextDir ==
    \/ InitializeDone
    \/ \E c \in DirCalls : CallApi(Caller, c[1], c[2])
    \/ EnsureInitialized(Caller)
    \/ AcquireTokenSilentOk(Caller)
    \/ \E e \in SilentErrors : AcquireTokenSilentFail(Caller, e)
    \/ AcquireTokenPopupOk(Caller)
    \/ \E e \in PopupErrors : AcquireTokenPopupFail(Caller, e)
    \/ PostTapOk(Caller)
    \/ \E body \in GraphSPLookups : GrantLookupOk(Caller, body)
    \/ GrantPostOk(Caller)
    \/ GetServicePrincipalOk(Caller)
    \/ ListServicePrincipalsOk(Caller)
    \/ AssignmentsOk(Caller)
    \/ \E i \in 1..MaxAssignments : EnrichOk(Caller, i)
    \/ \E i \in 1..MaxAssignments, e \in EnrichFailures : EnrichFail(Caller, i, e)
    \/ EnrichmentsDone(Caller)
    \/ \E e \in GraphErrors \cup {Unauthorized} : HttpFail(Caller, e)
    \/ Return(Caller)
    \/ \E n \in 1..MaxTokens : ExpireToken(n)

\* the session of this specification is signed in from the start
InitDir ==
    /\ initState = "Initializing"
    /\ accounts \in {<<>>, <<"alice">>}
    /\ graphClient = None
    /\ nextToken = 0
    /\ expired = {}
    /\ proc = [p \in Procs |-> IdleProc]
    /\ directory = InitialDirectory
    /\ lastUpdate = None
    /\ passes = <<>>
    /\ page = InitialPage
    /\ handler = IdleHandler
    /\ retired = {}
    /\ env = ValidEnv
    /\ app = InitialApp
    /\ admin = InitialAdmin

SpecDir == InitDir /\ [][NextDir]_vars

(***************************************************************************)
(* Directory API client: user profiles, against a stub directory           *)
(***************************************************************************)
\* the values an update can write
NewValues == {"X"}

\* the UpdateUserProfileData values: any subset of the updatable fields
ProfileUpdates == UNION { [S -> NewValues] : S \in SUBSET UpdatableFields }

\* the stub's PATCH /users/{id}: only the fields sent are replaced
Patched(profile, data) ==
    [f \in DOMAIN profile |-> IF f \in DOMAIN data THEN data[f] ELSE profile[f]]

\* GET /users/{id} answers: getUserProfile returns the body
GetUserOk(p) ==
    /\ proc[p].pc = "http"
    /\ proc[p].kind = "getUserProfile"
    /\ TokenAccepted(p)
    /\ proc' = [proc EXCEPT ![p].pc = "done",
                            ![p].out = Ok(directory[proc[p].arg.userId])]
    /\ UNCHANGED <<initState, accounts, graphClient, nextToken, expired, stubVars>>
    /\ UNCHANGED <<passes, pageVars, appVars>>

\* an update that is sent to the signed-in user's own record
PatchTargetMe(p) == proc[p].client.account

\* the user whose record updateUserProfile patches
PatchTarget(p) == proc[p].arg.userId

\* PATCH /users/{id} answers: updateUserProfile returns nothing
PatchUserOk(p) ==
    /\ proc[p].pc = "http"
    /\ proc[p].kind = "updateUserProfile"
    /\ TokenAccepted(p)
    /\ directory' = [directory EXCEPT
                       ![PatchTarget(p)] = Patched(@, proc[p].arg.data)]
    /\ lastUpdate' = [ userId |-> proc[p].arg.userId, data |-> proc[p].arg.data,
                       before |-> directory ]
    /\ proc' = [proc EXCEPT ![p].pc = "done", ![p].out = Ok(None)]
    /\ UNCHANGED <<initState, accounts, graphClient, nextToken, expired>>
    /\ UNCHANGED <<passes, pageVars, appVars>>

(***************************************************************************)
(* Specification of the profile operations, one caller                     *)
(***************************************************************************)
ProfileCalls ==
    ({"getUserProfile"} \X {[userId |-> u] : u \in Users})
      \cup ({"updateUserProfile"} \X
              {[userId |-> u, data |-> d] : u \in Users, d \in ProfileUpdates})
      \cup ({"getCurrentUserProfile"} \X {None})

NextProfile ==
    \/ InitializeDone
    \/ \E c \in ProfileCalls : CallApi(Caller, c[1], c[2])
    \/ EnsureInitialized(Caller)
    \/ AcquireTokenSilentOk(Caller)
    \/ \E e \in SilentErrors : AcquireTokenSilentFail(Caller, e)
    \/ AcquireTokenPopupOk(Caller)
    \/ \E e \in PopupErrors : AcquireTokenPopupFail(Caller, e)
    \/ GetUserOk(Caller)
    \/ PatchUserOk(Caller)
    \/ GetMeOk(Caller)
    \/ \E e \in RethrownFailures : HttpFail(Caller, e)
    \/ Return(Caller)
    \/ \E n \in 1..MaxTokens : ExpireToken(n)

SpecProfile == InitDir /\ [][NextProfile]_vars

(***************************************************************************)
(* TemporaryAccessPassPage: form state                                     *)
(***************************************************************************)
\* what the operator can type into the search box
SearchTerms == { <<>>, <<" ">>, <<"a">> }

\* what the operator can leave in the lifetime field
LifetimeTexts == { <<"6", "0">>, <<>>, <<"0">>, <<"-", "5">> }

RECURSIVE TrimStart(_)
TrimStart(s) == IF s # <<>> /\ Head(s) = " " THEN TrimStart(Tail(s)) ELSE s

RECURSIVE TrimEnd(_)
TrimEnd(s) ==
    IF s # <<>> /\ s[Len(s)] = " " THEN TrimEnd(SubSeq(s, 1, Len(s) - 1)) ELSE s

\* String.prototype.trim
Trim(s) == TrimEnd(TrimStart(s))

DigitOf ==
    [c \in {"0", "1", "2", "3", "4", "5", "6", "7", "8", "9"} |->
       CASE c = "0" -> 0 [] c = "1" -> 1 [] c = "2" -> 2 [] c = "3" -> 3
         [] c = "4" -> 4 [] c = "5" -> 5 [] c = "6" -> 6 [] c = "7" -> 7
         [] c = "8" -> 8 [] c = "9" -> 9]

RECURSIVE DigitsValue(_, _)
DigitsValue(s, acc) ==
    IF s = <<>> \/ Head(s) \notin DOMAIN DigitOf
      THEN acc
      ELSE DigitsValue(Tail(s), acc * 10 + DigitOf[Head(s)])

\* parseInt(text): leading white space, a sign, then the decimal digits up to
\* the first character that is not one; NaN when there is no digit
ParseInt(text) ==
    LET s == TrimStart(text)
        signed == s # <<>> /\ Head(s) \in {"-", "+"}
        body == IF signed THEN Tail(s) ELSE s
    IN  IF body = <<>> \/ Head(body) \notin DOMAIN DigitOf
          THEN NaN
          ELSE IF signed /\ Head(s) = "-"
                 THEN Num(0 - DigitsValue(body, 0))
                 ELSE Num(DigitsValue(body, 0))

\* the secret the page holds, if it holds one
Held(pg) ==
    IF pg.tapResult = None THEN {} ELSE {pg.tapResult.val.temporaryAccessPass}

\* what a handler of the page leaves alone in the service and the directory
pageFrame ==
    <<initState, accounts, graphClient, nextToken, expired, stubVars, appVars>>

\* onChange of the search box (disabled while loading)
SetSearchTerm(t) ==
    /\ ~page.loading
    /\ t # page.searchTerm
    /\ page' = [page EXCEPT !.searchTerm = t]
    /\ UNCHANGED <<pageFrame, proc, passes, handler, retired>>

\* onChange of the lifetime field (rendered for a selected user; disabled
\* while loading and while a pass is shown)
SetLifetimeMinutes(t) ==
    /\ page.selectedUser # None
    /\ ~page.loading /\ page.tapResult = None
    /\ t # page.lifetimeMinutes
    /\ page' = [page EXCEPT !.lifetimeMinutes = t]
    /\ UNCHANGED <<pageFrame, proc, passes, handler, retired>>

\* onChange of the single-use checkbox (same conditions)
SetIsUsableOnce ==
    /\ page.selectedUser # None
    /\ ~page.loading /\ page.tapResult = None
    /\ page' = [page EXCEPT !.isUsableOnce = ~page.isUsableOnce]
    /\ UNCHANGED <<pageFrame, proc, passes, handler, retired>>

\* onClose of the error alert
DismissError ==
    /\ page.error # None
    /\ page' = [page EXCEPT !.error = None]
    /\ UNCHANGED <<pageFrame, proc, passes, handler, retired>>

\* a click on a search result that keeps the pass on the page
AfterSelectKeepsPass(pg, user) == [pg EXCEPT !.selectedUser = Some(user)]

\* onClick of a search result: setSelectedUser(user); setTapResult(null)
AfterSelect(pg, user) ==
    [pg EXCEPT !.selectedUser = Some(user), !.tapResult = None]

\* a click on the i-th search result (the list is not disabled while loading)
SelectUser(i) ==
    /\ i \in 1..Len(page.searchResults)
    /\ page' = AfterSelect(page, page.searchResults[i])
    /\ retired' = retired \cup Held(page)
    /\ UNCHANGED <<pageFrame, proc, passes, handler>>

\* onClick of "Generate Another" (rendered next to the pass it replaces)
GenerateAnother ==
    /\ page.selectedUser # None
    /\ page.tapResult # None
    /\ page' = [page EXCEPT !.tapResult = None, !.selectedUser = None,
                            !.searchResults = <<>>, !.searchTerm = <<>>]
    /\ retired' = retired \cup Held(page)
    /\ UNCHANGED <<pageFrame, proc, passes, handler>>

(***************************************************************************)
(* TemporaryAccessPassPage: search and direct generation                   *)
(***************************************************************************)
PleaseEnterSearchTerm == <<"Please", "enter", "a", "search", "term">>

FailedToSearch ==
    <<"Failed", "to", "search", "users.", "Please", "ensure", "you", "are",
      "signed", "in.">>

FailedToGenerateDefault ==
    <<"Failed", "to", "generate", "Temporary", "Access", "Pass.", "Please",
      "check", "your", "permissions.">>

\* what a handler captured of the render it was started from
Closure(pg) ==
    [ selectedUser |-> pg.selectedUser.val, lifetimeMinutes |-> pg.lifetimeMinutes,
      isUsableOnce |-> pg.isUsableOnce ]

\* onSubmit of the search form (its button is disabled while loading): up to
\* the await of searchUsers
HandleSearch ==
    /\ ~page.loading
    /\ IF Trim(page.searchTerm) = <<>>
         THEN /\ page' = [page EXCEPT !.error = Some(PleaseEnterSearchTerm)]
              /\ UNCHANGED <<proc, handler, retired>>
         ELSE /\ page' = [page EXCEPT !.loading = TRUE, !.error = None,
                                      !.tapResult = None]
              /\ retired' = retired \cup Held(page)
              /\ handler' = [IdleHandler EXCEPT !.pc = "search"]
              /\ StartApi(Caller, "searchUsers", [searchTerm |-> page.searchTerm])
    /\ UNCHANGED <<pageFrame, passes>>

\* the lists GET /users can answer with
SearchBodies ==
    { <<>>, <<directory["alice"]>>, <<directory["bob"]>>,
      <<directory["alice"], directory["bob"]>> }

\* GET /users?$filter=... answers: searchUsers returns result.value
SearchUsersOk(p) ==
    /\ proc[p].pc = "http"
    /\ proc[p].kind = "searchUsers"
    /\ TokenAccepted(p)
    /\ \E body \in SearchBodies :
         proc' = [proc EXCEPT ![p].pc = "done", ![p].out = Ok(body)]
    /\ UNCHANGED <<initState, accounts, graphClient, nextToken, expired>>
    /\ UNCHANGED nonServiceVars

\* handleSearch after the await: the results or the error, then finally
ResumeSearch ==
    /\ handler.pc = "search"
    /\ proc[Caller].pc = "done"
    /\ page' = IF proc[Caller].out.t = "ok"
                 THEN [page EXCEPT !.searchResults = proc[Caller].out.val,
                                   !.selectedUser = None, !.loading = FALSE]
                 ELSE [page EXCEPT !.error = Some(FailedToSearch),
                                   !.loading = FALSE]
    /\ proc' = [proc EXCEPT ![Caller] = IdleProc]
    /\ handler' = IdleHandler
    /\ UNCHANGED <<pageFrame, passes, retired>>

\* the generate buttons are rendered for a selected user while no pass is
\* shown, and are disabled while loading
CanGenerate ==
    /\ page.selectedUser # None
    /\ page.tapResult = None
    /\ ~page.loading

\* handleGenerateTAP up to the await of createTemporaryAccessPass
HandleGenerateTAP ==
    /\ CanGenerate
    /\ page' = [page EXCEPT !.loading = TRUE, !.error = None]
    /\ handler' = [IdleHandler EXCEPT !.pc = "generate", !.user = Closure(page)]
    /\ StartApi(Caller, "createTemporaryAccessPass",
                [ userId |-> page.selectedUser.val.id,
                  lifetimeInMinutes |-> ParseInt(page.lifetimeMinutes),
                  isUsableOnce |-> page.isUsableOnce ])
    /\ UNCHANGED <<pageFrame, passes, retired>>

\* err.message || fallback
MessageOr(e, fallback) == IF e.message # <<>> THEN e.message ELSE fallback

\* handleGenerateTAP after the await: setTapResult(tap) or setError, then
\* finally
ResumeGenerateTAP ==
    /\ handler.pc = "generate"
    /\ proc[Caller].pc = "done"
    /\ page' = IF proc[Caller].out.t = "ok"
                 THEN [page EXCEPT !.tapResult = Some(proc[Caller].out.val),
                                   !.loading = FALSE]
                 ELSE [page EXCEPT
                         !.error = Some(MessageOr(proc[Caller].out.err,
                                                  FailedToGenerateDefault)),
                         !.loading = FALSE]
    /\ proc' = [proc EXCEPT ![Caller] = IdleProc]
    /\ handler' = IdleHandler
    /\ UNCHANGED <<pageFrame, passes, retired>>

(***************************************************************************)
(* TemporaryAccessPassPage: generation through the webhook                 *)
(***************************************************************************)
\* the object a JSON body of the webhook denotes
JsonObject(pass, tap, lifetime, usableOnce, error) ==
    [ temporaryAccessPass |-> pass, tap |-> tap, lifetimeInMinutes |-> lifetime,
      isUsableOnce |-> usableOnce, error |-> error ]

\* a response body: its characters and, when they are JSON, what they denote
Body(chars, json) == [chars |-> chars, json |-> json]

\* what the JSON text null denotes
JsonNull == [t |-> "null"]

\* the bodies of a successful response in which the secret s is reported
\* under the given names, the bodies without one, and a body that reports s
\* as temporaryAccessPass next to another value, Secret(0), as tap
OkBodies(s) ==
    { Body(<<>>, None), Body(<<" ">>, None), Body(<<"oops">>, None),
      Body(<<"null">>, Some(JsonNull)),
      Body(<<"{..}">>, Some(JsonObject(Some(s), Some(Secret(0)), None, None, None))) }
      \cup { Body(<<"{..}">>, Some(JsonObject(pass, tap, lifetime, usableOnce, None))) :
               pass \in {None, Some(s)}, tap \in {None, Some(s)},
               lifetime \in {None, Some(Num(30))},
               usableOnce \in {None, Some(FALSE)} }

\* the bodies of a response that is not OK
FailureBodies ==
    { Body(<<>>, None), Body(<<"oops">>, None),
      Body(<<"{..}">>, Some(JsonObject(None, None, None, None, None))),
      Body(<<"{..}">>, Some(JsonObject(None, None, None, None,
                 Some([code |-> "Forbidden", message |-> "denied"])))) }

\* JSON.parse
JsonParse(body) ==
    IF body.json = None
      THEN Err(Error("SyntaxError", 0, <<"Unexpected", "token">>))
      ELSE Ok(body.json.val)

\* whether a body reports a secret
ReportsSecret(body) ==
    /\ body.json # None
    /\ body.json.val # JsonNull
    /\ body.json.val.temporaryAccessPass # None \/ body.json.val.tap # None

\* handleGenerateTAPViaLogicApp up to the await of fetch: one POST with the
\* selected user's id
HandleGenerateTAPViaLogicApp ==
    /\ CanGenerate
    /\ page' = [page EXCEPT !.loading = TRUE, !.error = None]
    /\ handler' = [ pc |-> "fetch", user |-> Closure(page),
                    response |-> [ method |-> "POST",
                                   body |-> [entraObjectId |-> page.selectedUser.val.id] ] ]
    /\ UNCHANGED <<pageFrame, proc, passes, retired>>

\* the handler's catch and finally
WebhookFailed(e, fallback) ==
    /\ page' = [page EXCEPT !.error = Some(MessageOr(e, fallback)),
                            !.loading = FALSE]
    /\ handler' = IdleHandler

FailedViaLogicAppDefault ==
    <<"Failed", "to", "generate", "TAP", "via", "Logic", "App.">>

\* fetch rejects (the network failed)
FetchRejects ==
    /\ handler.pc = "fetch"
    /\ WebhookFailed(Error("TypeError", 0, <<"Failed", "to", "fetch">>),
                     FailedViaLogicAppDefault)
    /\ UNCHANGED <<pageFrame, proc, passes, retired>>

\* fetch resolves with a successful response; a body that reports a secret
\* reports the one of a pass newly issued for the user named in the request
FetchResolvesOk ==
    /\ handler.pc = "fetch"
    /\ \E body \in OkBodies(Secret(Len(passes) + 1)) :
         /\ handler' = [handler EXCEPT !.pc = "text",
               !.response = [ok |-> TRUE, status |-> "200", statusText |-> "OK",
                              body |-> body]]
         /\ IF ReportsSecret(body)
              THEN /\ Len(passes) < MaxPasses
                   /\ passes' = Append(passes,
                          [userId |-> handler.response.body.entraObjectId])
              ELSE UNCHANGED passes
    /\ UNCHANGED <<pageFrame, proc, page, retired>>

\* fetch resolves with a response that is not OK
FetchResolvesNotOk ==
    /\ handler.pc = "fetch"
    /\ \E status \in {"400", "502"}, body \in FailureBodies :
         handler' = [handler EXCEPT !.pc = "text",
               !.response = [ok |-> FALSE, status |-> status,
                              statusText |-> "Error", body |-> body]]
    /\ UNCHANGED <<pageFrame, proc, page, passes, retired>>

\* errorDetails of a response that is not OK
ErrorDetails(r) ==
    LET parsed == JsonParse(r.body)
    IN  IF parsed.t = "ok" /\ parsed.val.error # None
          THEN <<parsed.val.error.val.code, parsed.val.error.val.message>>
          ELSE IF r.body.chars # <<>> THEN r.body.chars ELSE <<r.statusText>>

\* a || b for a number a
NumOr(a, b) == IF a # None /\ a.val # NaN /\ a.val.val # 0 THEN a.val ELSE b

\* the pass the handler stores for a secret found in the result
StoredPass(secret, result, closure) ==
    [ temporaryAccessPass |-> secret,
      lifetimeInMinutes |->
          NumOr(result.lifetimeInMinutes, ParseInt(closure.lifetimeMinutes)),
      isUsableOnce |-> IF result.isUsableOnce # None
                         THEN result.isUsableOnce.val ELSE closure.isUsableOnce ]

\* a handler that looks for the secret under tap first
FoundSecretTapFirst(result) ==
    IF result.tap # None THEN result.tap ELSE result.temporaryAccessPass

\* the secret the handler finds in the result: result.temporaryAccessPass,
\* else result.tap, else none
FoundSecret(result) ==
    IF result.temporaryAccessPass # None THEN result.temporaryAccessPass
    ELSE result.tap

\* reading a property of null
CannotReadNull ==
    Error("TypeError", 0, <<"Cannot", "read", "properties", "of", "null">>)

\* what handleGenerateTAPViaLogicApp makes of the response once its text is
\* read: the pass to store, or the error thrown
WebhookOutcome(r, closure) ==
    IF ~r.ok
      THEN IF r.status = "502"
             THEN Err(Error("Error", 0,
                        <<"Logic", "App", "timeout", "(502)">> \o ErrorDetails(r)))
             ELSE Err(Error("Error", 0,
                        <<"Logic", "App", "request", "failed", r.status>>
                          \o ErrorDetails(r)))
      ELSE IF r.body.chars = <<>> \/ Trim(r.body.chars) = <<>>
        THEN Err(Error("Error", 0,
                   <<"Logic", "App", "returned", "an", "empty", "response.">>))
        ELSE LET parsed == JsonParse(r.body) IN
          IF parsed.t = "err"
            THEN Err(Error("Error", 0,
                       <<"Invalid", "JSON", "response", "from", "Logic", "App:">>
                         \o r.body.chars))
            ELSE IF parsed.val = JsonNull
              THEN Err(CannotReadNull)
              ELSE IF FoundSecret(parsed.val) # None
                THEN Ok(StoredPass(FoundSecret(parsed.val).val, parsed.val, closure))
                ELSE Err(Error("Error", 0,
                           <<"TAP", "generation", "completed", "but", "response",
                             "format", "was", "unexpected.">>))

\* response.text() resolves: the rest of the handler runs
TextResolves ==
    /\ handler.pc = "text"
    /\ LET outcome == WebhookOutcome(handler.response, handler.user)
       IN  IF outcome.t = "ok"
             THEN /\ page' = [page EXCEPT !.tapResult = Some(outcome.val),
                                          !.loading = FALSE]
                  /\ handler' = IdleHandler
             ELSE WebhookFailed(outcome.err, FailedViaLogicAppDefault)
    /\ UNCHANGED <<pageFrame, proc, passes, retired>>

\* response.text() rejects (the connection broke while the body was read)
TextRejects ==
    /\ handler.pc = "text"
    /\ WebhookFailed(Error("TypeError", 0, <<"Failed", "to", "fetch">>),
                     FailedViaLogicAppDefault)
    /\ UNCHANGED <<pageFrame, proc, passes, retired>>

(***************************************************************************)
(* Specification of TemporaryAccessPassPage over the directory client      *)
(***************************************************************************)
\* the request failures drawn in this specification
TapFailures ==
    { Unauthorized, Error("GraphError", 403, <<"Insufficient", "privileges">>),
      Error("GraphError", 500, <<>>) }

NextTap ==
    \/ InitializeDone
    \/ \E t \in SearchTerms : SetSearchTerm(t)
    \/ \E t \in LifetimeTexts : SetLifetimeMinutes(t)
    \/ SetIsUsableOnce
    \/ DismissError
    \/ HandleSearch
    \/ SearchUsersOk(Caller)
    \/ ResumeSearch
    \/ \E i \in 1..Cardinality(Users) : SelectUser(i)
    \/ GenerateAnother
    \/ HandleGenerateTAP
    \/ PostTapOk(Caller)
    \/ ResumeGenerateTAP
    \/ HandleGenerateTAPViaLogicApp
    \/ FetchRejects
    \/ FetchResolvesOk
    \/ FetchResolvesNotOk
    \/ TextResolves
    \/ TextRejects
    \/ EnsureInitialized(Caller)
    \/ AcquireTokenSilentOk(Caller)
    \/ \E e \in SilentErrors : AcquireTokenSilentFail(Caller, e)
    \/ AcquireTokenPopupOk(Caller)
    \/ \E e \in PopupErrors : AcquireTokenPopupFail(Caller, e)
    \/ \E e \in TapFailures : HttpFail(Caller, e)
    \/ \E n \in 1..MaxTokens : ExpireToken(n)

SpecTap == InitDir /\ [][NextTap]_vars

(***************************************************************************)
(* AdminPage: looking up a service principal and granting it an app role   *)
(***************************************************************************)
\* the object ids typed into the manual entry box
AdminIds == {"", "sp-1", "sp-2"}

\* the options of the permission select drawn here
PermissionOptions ==
    {"UserAuthenticationMethod.ReadWrite.All", "Directory.ReadWrite.All"}

\* what a handler of AdminPage leaves alone
adminFrame ==
    <<initState, accounts, graphClient, nextToken, expired, stubVars, passes,
      pageVars, env, app>>

\* onChange of the object id box
SetServicePrincipalId(id) ==
    /\ id # admin.servicePrincipalId
    /\ admin' = [admin EXCEPT !.servicePrincipalId = id]
    /\ UNCHANGED <<proc, adminFrame>>

\* onChange of the permission select (rendered once spInfo is set)
SetPermissionName(name) ==
    /\ admin.spInfo # None
    /\ name # admin.permissionName
    /\ admin' = [admin EXCEPT !.permissionName = name]
    /\ UNCHANGED <<proc, adminFrame>>

\* the cells a handler of AdminPage closes over
AdminClosure(a) ==
    [servicePrincipalId |-> a.servicePrincipalId, permissionName |-> a.permissionName]

FailedToLookup == <<"Failed to lookup service principal">>

FailedToGrantDefault == <<"Failed to grant permission">>

\* handleLookupServicePrincipal up to the await of getServicePrincipalInfo
\* (its button is disabled while loading or while the id is blank)
HandleLookupServicePrincipal ==
    /\ ~admin.loading
    /\ admin.servicePrincipalId # ""
    /\ admin' = [admin EXCEPT !.error = None, !.success = None, !.spInfo = None,
                   !.currentPermissions = <<>>, !.loading = TRUE,
                   !.pc = "lookup", !.closure = AdminClosure(admin)]
    /\ StartApi(Caller, "getServicePrincipalInfo",
                [objectId |-> admin.servicePrincipalId])
    /\ UNCHANGED adminFrame

\* handleLookupServicePrincipal after getServicePrincipalInfo: setSpInfo and
\* setSuccess, then loadCurrentPermissions up to its await; or the catch and
\* finally
ResumeLookup ==
    /\ admin.pc = "lookup"
    /\ proc[Caller].pc = "done"
    /\ IF proc[Caller].out.t = "ok"
         THEN /\ admin' = [admin EXCEPT !.spInfo = Some(proc[Caller].out.val),
                   !.success = Some(<<"Found service principal:",
                                      proc[Caller].out.val.displayName>>),
                   !.loadingPermissions = TRUE, !.pc = "lookupPermissions"]
              /\ StartApi(Caller, "getServicePrincipalAppRoleAssignments",
                          [objectId |-> admin.closure.servicePrincipalId])
         ELSE /\ admin' = [admin EXCEPT
                   !.error = Some(MessageOr(proc[Caller].out.err, FailedToLookup)),
                   !.loading = FALSE, !.pc = "idle", !.closure = None]
              /\ proc' = [proc EXCEPT ![Caller] = IdleProc]
    /\ UNCHANGED adminFrame

\* handleGrantPermission up to the await of grantAppRoleToServicePrincipal
\* (its form is rendered once spInfo is set; its button is disabled while
\* loading)
HandleGrantPermission ==
    /\ admin.spInfo # None
    /\ ~admin.loading
    /\ admin' = [admin EXCEPT !.error = None, !.success = None, !.loading = TRUE,
                   !.pc = "grant", !.closure = AdminClosure(admin)]
    /\ StartApi(Caller, "grantAppRoleToServicePrincipal",
                [ servicePrincipalObjectId |-> admin.servicePrincipalId,
                  appRoleName |-> admin.permissionName ])
    /\ UNCHANGED adminFrame

\* handleGrantPermission after the grant: setSuccess and the await of
\* getServicePrincipalInfo; or the catch (every failure is shown) and finally
ResumeGrant ==
    /\ admin.pc = "grant"
    /\ proc[Caller].pc = "done"
    /\ IF proc[Caller].out.t = "ok"
         THEN /\ admin' = [admin EXCEPT
                   !.success = Some(<<"Successfully granted",
                                      admin.closure.permissionName,
                                      "to service principal!">>),
                   !.pc = "grantInfo"]
              /\ StartApi(Caller, "getServicePrincipalInfo",
                          [objectId |-> admin.closure.servicePrincipalId])
         ELSE /\ admin' = [admin EXCEPT
                   !.error = Some(MessageOr(proc[Caller].out.err,
                                            FailedToGrantDefault)),
                   !.loading = FALSE, !.pc = "idle", !.closure = None]
              /\ proc' = [proc EXCEPT ![Caller] = IdleProc]
    /\ UNCHANGED adminFrame

\* handleGrantPermission after the refresh of the info: setSpInfo, then
\* loadCurrentPermissions up to its await; or the catch and finally
ResumeGrantInfo ==
    /\ admin.pc = "grantInfo"
    /\ proc[Caller].pc = "done"
    /\ IF proc[Caller].out.t = "ok"
         THEN /\ admin' = [admin EXCEPT !.spInfo = Some(proc[Caller].out.val),
                   !.loadingPermissions = TRUE, !.pc = "grantPermissions"]
              /\ StartApi(Caller, "getServicePrincipalAppRoleAssignments",
                          [objectId |-> admin.closure.servicePrincipalId])
         ELSE /\ admin' = [admin EXCEPT
                   !.error = Some(MessageOr(proc[Caller].out.err,
                                            FailedToGrantDefault)),
                   !.loading = FALSE, !.pc = "idle", !.closure = None]
              /\ proc' = [proc EXCEPT ![Caller] = IdleProc]
    /\ UNCHANGED adminFrame

\* loadCurrentPermissions after its await: the list, or the empty list when
\* the call failed (its own catch swallows the failure); then the finally of
\* the handler that awaited it
ResumePermissions ==
    /\ admin.pc \in {"lookupPermissions", "grantPermissions"}
    /\ proc[Caller].pc = "done"
    /\ admin' = [admin EXCEPT
          !.currentPermissions = IF proc[Caller].out.t = "ok"
                                   THEN proc[Caller].out.val ELSE <<>>,
          !.loadingPermissions = FALSE, !.loading = FALSE,
          !.pc = "idle", !.closure = None]
    /\ proc' = [proc EXCEPT ![Caller] = IdleProc]
    /\ UNCHANGED adminFrame

(***************************************************************************)
(* Specification of AdminPage over the directory client                    *)
(***************************************************************************)
\* the answers of the directory API drawn in this specification
AdminFailures ==
    { Unauthorized, Error("GraphError", 403, <<"Insufficient", "privileges">>),
      Error("GraphError", 400, <<"Permission", "already", "exists">>),
      Error("GraphError", 404, <<>>) }

\* the assignment lists drawn in this specification: none, or one assignment
AdminAssignmentBodies ==
    { Some(<<>>),
      Some(<< [principalId |-> "sp-1", resourceId |-> "sp-graph",
               appRoleId |-> "role-urw"] >>) }

NextAdmin ==
    \/ InitializeDone
    \/ \E id \in AdminIds : SetServicePrincipalId(id)
    \/ \E name \in PermissionOptions : SetPermissionName(name)
    \/ HandleLookupServicePrincipal
    \/ ResumeLookup
    \/ HandleGrantPermission
    \/ ResumeGrant
    \/ ResumeGrantInfo
    \/ ResumePermissions
    \/ EnsureInitialized(Caller)
    \/ AcquireTokenSilentOk(Caller)
    \/ \E e \in SilentErrors : AcquireTokenSilentFail(Caller, e)
    \/ AcquireTokenPopupOk(Caller)
    \/ \E e \in PopupErrors : AcquireTokenPopupFail(Caller, e)
    \/ \E body \in GraphSPLookups : GrantLookupOk(Caller, body)
    \/ GrantPostOk(Caller)
    \/ GetServicePrincipalOk(Caller)
    \/ \E body \in AdminAssignmentBodies : AssignmentsAnswer(Caller, body)
    \/ EnrichOk(Caller, 1)
    \/ \E e \in {Unauthorized} : EnrichFail(Caller, 1, e)
    \/ EnrichmentsDone(Caller)
    \/ \E e \in AdminFailures : HttpFail(Caller, e)
    \/ ExpireToken(1)

SpecAdmin == InitDir /\ [][NextAdmin]_vars

(***************************************************************************)
(* Environment validator                                                   *)
(***************************************************************************)
HexDigits ==
    { "0", "1", "2", "3", "4", "5", "6", "7", "8", "9",
      "a", "b", "c", "d", "e", "f", "A", "B", "C", "D", "E", "F" }

\* guidRegex.test(s): 8-4-4-4-12 hexadecimal digits of either case, anchored
\* at both ends
GuidRegexTest(s) ==
    /\ Len(s) = 36
    /\ \A i \in 1..36 :
         IF i \in {9, 14, 19, 24} THEN s[i] = "-" ELSE s[i] \in HexDigits

\* the schemes whose URLs need a host
SpecialSchemes == {"http", "https"}

\* the words that can be the scheme of a URL
Schemes == SpecialSchemes \cup {"mailto", "localhost"}

\* whether new URL(s) returns (s is an absolute URL) rather than throws; white
\* space around s is ignored
UrlParses(s) ==
    LET u == Trim(s)
    IN  /\ Len(u) >= 2
        /\ u[1] \in Schemes
        /\ u[2] = ":"
        /\ u[1] \in SpecialSchemes => (Len(u) >= 4 /\ u[3] = "//")

\* !value: the variable is not set, or is set to the empty string
IsMissing(e, v) == e[v] = None \/ e[v].val = <<>>

\* value.trim() === '' for a value that is set
IsBlank(e, v) == ~IsMissing(e, v) /\ Trim(e[v].val) = <<>>

\* the error thrown when required variables are missing or blank
PresenceError(missing, invalid) ==
    Error("Error", 0,
      (IF missing # <<>>
         THEN <<"Missing environment variables:">> \o missing ELSE <<>>)
      \o (IF invalid # <<>>
            THEN <<"Invalid environment variables:">> \o invalid ELSE <<>>)
      \o <<"Please check your .env file and ensure all required variables are set.",
           "Required variables:">>
      \o RequiredEnvVars)

NotAValidGuid(v, value) ==
    Error("Error", 0, <<v, "is not a valid GUID:">> \o value)

NotAValidUrl(v, value) ==
    Error("Error", 0, <<v, "is not a valid URL:">> \o value)

\* a validator that checks the tenant identifier before the application
\* identifier
ShapeChecksTenantFirst(e) ==
    IF ~GuidRegexTest(e.VITE_AZURE_TENANT_ID.val)
      THEN Err(NotAValidGuid("VITE_AZURE_TENANT_ID", e.VITE_AZURE_TENANT_ID.val))
    ELSE IF ~GuidRegexTest(e.VITE_AZURE_CLIENT_ID.val)
      THEN Err(NotAValidGuid("VITE_AZURE_CLIENT_ID", e.VITE_AZURE_CLIENT_ID.val))
    ELSE IF ~UrlParses(e.VITE_AZURE_REDIRECT_URI.val)
      THEN Err(NotAValidUrl("VITE_AZURE_REDIRECT_URI", e.VITE_AZURE_REDIRECT_URI.val))
    ELSE Ok(None)

\* the shape checks of validateEnvironment, made once all values are present
ShapeChecks(e) ==
    IF ~GuidRegexTest(e.VITE_AZURE_CLIENT_ID.val)
      THEN Err(NotAValidGuid("VITE_AZURE_CLIENT_ID", e.VITE_AZURE_CLIENT_ID.val))
    ELSE IF ~GuidRegexTest(e.VITE_AZURE_TENANT_ID.val)
      THEN Err(NotAValidGuid("VITE_AZURE_TENANT_ID", e.VITE_AZURE_TENANT_ID.val))
    ELSE IF ~UrlParses(e.VITE_AZURE_REDIRECT_URI.val)
      THEN Err(NotAValidUrl("VITE_AZURE_REDIRECT_URI", e.VITE_AZURE_REDIRECT_URI.val))
    ELSE Ok(None)

\* validateEnvironment(): returns, or throws the error of the first failed
\* check
validateEnvironment(e) ==
    LET missing == SelectSeq(RequiredEnvVars, LAMBDA v : IsMissing(e, v))
        invalid == SelectSeq(RequiredEnvVars, LAMBDA v : IsBlank(e, v))
    IN  IF missing # <<>> \/ invalid # <<>>
          THEN Err(PresenceError(missing, invalid))
          ELSE ShapeChecks(e)

\* the values the two identifiers are given in this model
IdValues ==
    { None, Some(<<>>), Some(<<" ">>), Some(GuidOf("a")), Some(GuidOf("F")),
      Some(GuidOf("g")), Some(GuidOf("a") \o <<" ">>) }

\* the values the redirect target is given in this model
UriValues ==
    { None, Some(<<>>), Some(<<" ">>), Some(<<"http", ":", "//", "localhost">>),
      Some(<<"localhost", ":", "5173">>), Some(<<"/", "callback">>),
      Some(<<"http", ":">>) }

Envs ==
    [ VITE_AZURE_CLIENT_ID : IdValues, VITE_AZURE_TENANT_ID : IdValues,
      VITE_AZURE_REDIRECT_URI : UriValues ]

(***************************************************************************)
(* App: startup and routes                                                 *)
(***************************************************************************)
\* the App modules of the repository: the one the entry point sits next to,
\* and the one that validates the environment and wraps pages in
\* ProtectedRoute
Builds == {"App.tsx", "part_001"}

\* the paths a visitor can ask for
Paths == {"/", "/dashboard", "/tap", "/profile", "/admin", "/nope"}

\* the page each path other than "/" is routed to
LayoutPages ==
    [ p \in {"/dashboard", "/tap", "/profile", "/admin"} |->
        CASE p = "/dashboard" -> "Dashboard"
          [] p = "/tap" -> "TemporaryAccessPassPage"
          [] p = "/profile" -> "UserProfilePage"
          [] p = "/admin" -> "AdminPage" ]

Home == [location |-> "/", screen |-> "GraphTestPage"]

\* ProtectedRoute: its child for an authenticated session, else <Navigate to="/">
ProtectedRoute(authenticated, child) == IF authenticated THEN child ELSE Home

\* the element <Routes> renders for a path: the routes of the App module
Route(build, path, authenticated) ==
    IF path = "/" THEN Home
    ELSE IF path \in DOMAIN LayoutPages
      THEN IF build = "part_001"
             THEN ProtectedRoute(authenticated,
                                 [location |-> path, screen |-> LayoutPages[path]])
             ELSE [location |-> path, screen |-> LayoutPages[path]]
    ELSE Home

\* GraphTestPage as it is mounted: its useState cells after checkAuth()
MountedTestPage ==
    [ isAuthenticated |-> getAccount # None, loading |-> FALSE, error |-> None,
      userProfile |-> None ]

\* the tab after the router has rendered a path
Render(a, path) ==
    LET target == Route(a.build, path, isAuthenticated)
    IN  [a EXCEPT !.location = target.location, !.screen = target.screen,
                  !.authAtRender = isAuthenticated, !.test = MountedTestPage]

\* the bundle runs: the App module validates the environment if it is the one
\* that does, and alerts when the validation throws
LoadModule ==
    /\ app.phase = "load"
    /\ app' = IF app.build = "part_001"
                THEN LET result == validateEnvironment(env)
                     IN  IF result.t = "err"
                           THEN [app EXCEPT !.validation = result,
                                   !.notice = Some(<<"Configuration Error:">>
                                                     \o result.err.message),
                                   !.phase = "alert"]
                           ELSE [app EXCEPT !.validation = result, !.phase = "ready"]
                ELSE [app EXCEPT !.phase = "ready"]
    /\ UNCHANGED <<svcVars, stubVars, passes, pageVars, env, admin>>

\* the visitor closes the alert: the module body continues
DismissNotice ==
    /\ app.phase = "alert"
    /\ app' = [app EXCEPT !.phase = "ready"]
    /\ UNCHANGED <<svcVars, stubVars, passes, pageVars, env, admin>>

\* account.name || account.username (the accounts of this model carry no name)
DisplayedName(account) == account.username

\* ReactDOM.render(<App/>): the first render of the routes, then App's effect
MountApp ==
    /\ app.phase = "ready"
    /\ app' = [Render(app, app.location) EXCEPT
                 !.phase = "mounted",
                 !.userName = IF getAccount # None
                                THEN Some(DisplayedName(getAccount)) ELSE None]
    /\ UNCHANGED <<svcVars, stubVars, passes, pageVars, env, admin>>

\* the links the rendered screen offers: the sidebar of Layout, and the
\* "Issue TAP" button of GraphTestPage once it shows a session
Links ==
    IF app.screen = "GraphTestPage"
      THEN IF app.test.isAuthenticated THEN {"/tap"} ELSE {}
      ELSE DOMAIN LayoutPages

\* a click on a link: the router renders the path without reloading
NavigateTo(path) ==
    /\ app.phase = "mounted"
    /\ path \in Links
    /\ app' = Render(app, path)
    /\ UNCHANGED <<svcVars, stubVars, passes, pageVars, env, admin>>

\* the tab is loaded anew at a path: the modules run again, the accounts in
\* localStorage stay
LoadedAt(path) ==
    /\ app' = [InitialApp EXCEPT !.build = app.build, !.location = path]
    /\ initState' = "Initializing"
    /\ graphClient' = None
    /\ proc' = [p \in Procs |-> IdleProc]

\* the visitor enters a URL
EnterUrl(path) ==
    /\ app.phase = "mounted"
    /\ LoadedAt(path)
    /\ UNCHANGED <<accounts, nextToken, expired, stubVars, passes, pageVars,
                   env, admin>>

(***************************************************************************)
(* App: the sign-in and sign-out handlers                                  *)
(***************************************************************************)
appFrame == <<initState, accounts, graphClient, nextToken, expired,
              stubVars, passes, pageVars, env, admin>>

\* `Login failed: ${err.message || 'Unknown error'}`
PrefixedMessage(prefix, e) == <<prefix>> \o MessageOr(e, <<"Unknown error">>)

\* GraphTestPage.handleLogin up to the await of login() ("Sign In" is shown
\* while the page knows of no session, and is disabled while loading)
HandleLogin ==
    /\ app.phase = "mounted" /\ app.screen = "GraphTestPage"
    /\ ~app.test.isAuthenticated /\ ~app.test.loading
    /\ app' = [app EXCEPT !.test.loading = TRUE, !.test.error = None,
                          !.pc = "handleLogin"]
    /\ StartSession(Caller, "login")
    /\ UNCHANGED appFrame

\* GraphTestPage.handleLogout up to the await of logout()
HandleTestLogout ==
    /\ app.phase = "mounted" /\ app.screen = "GraphTestPage"
    /\ app.test.isAuthenticated /\ ~app.test.loading
    /\ app' = [app EXCEPT !.test.loading = TRUE, !.pc = "handleLogout"]
    /\ StartSession(Caller, "logout")
    /\ UNCHANGED appFrame

\* GraphTestPage.handleGetProfile up to the await of getCurrentUserProfile()
\* ("Get My Profile" is shown while the page knows of a session)
HandleGetProfile ==
    /\ app.phase = "mounted" /\ app.screen = "GraphTestPage"
    /\ app.test.isAuthenticated /\ ~app.test.loading
    /\ app' = [app EXCEPT !.test.loading = TRUE, !.test.error = None,
                          !.pc = "handleGetProfile"]
    /\ StartApi(Caller, "getCurrentUserProfile", None)
    /\ UNCHANGED appFrame

\* a handler of GraphTestPage after its await; the state of a page that was
\* left in the meantime is gone
ResumeTestPage ==
    /\ app.pc \in {"handleLogin", "handleLogout", "handleGetProfile"}
    /\ proc[Caller].pc = "done"
    /\ LET out == proc[Caller].out
           test == app.test
           after ==
             IF app.pc = "handleLogin"
               THEN IF out.t = "ok"
                      THEN [test EXCEPT !.isAuthenticated = TRUE, !.loading = FALSE]
                      ELSE [test EXCEPT !.loading = FALSE,
                              !.error = Some(PrefixedMessage("Login failed:", out.err))]
             ELSE IF app.pc = "handleLogout"
               THEN IF out.t = "ok"
                      THEN [test EXCEPT !.isAuthenticated = FALSE, !.loading = FALSE,
                                        !.userProfile = None]
                      ELSE [test EXCEPT !.loading = FALSE,
                              !.error = Some(PrefixedMessage("Logout failed:", out.err))]
             ELSE IF out.t = "ok"
                    THEN [test EXCEPT !.userProfile = Some(out.val), !.loading = FALSE]
                    ELSE [test EXCEPT !.loading = FALSE,
                            !.error = Some(PrefixedMessage("Failed to get profile:",
                                                           out.err))]
       IN  app' = [app EXCEPT !.pc = "idle",
                     !.test = IF app.screen = "GraphTestPage" THEN after ELSE test]
    /\ proc' = [proc EXCEPT ![Caller] = IdleProc]
    /\ UNCHANGED appFrame

\* App.handleLogout up to the await of logout() (the button of Layout, shown
\* with the user's name)
HandleAppLogout ==
    /\ app.phase = "mounted" /\ app.screen # "GraphTestPage"
    /\ app.userName # None
    /\ app.pc = "idle"
    /\ app' = [app EXCEPT !.pc = "appLogout"]
    /\ StartSession(Caller, "logout")
    /\ UNCHANGED appFrame

\* App.handleLogout after the await: setUserName(undefined) and
\* window.location.reload(), or the error is logged
ResumeAppLogout ==
    /\ app.pc = "appLogout"
    /\ proc[Caller].pc = "done"
    /\ IF proc[Caller].out.t = "ok"
         THEN LoadedAt(app.location)
         ELSE /\ app' = [app EXCEPT !.pc = "idle"]
              /\ proc' = [proc EXCEPT ![Caller] = IdleProc]
              /\ UNCHANGED <<initState, graphClient>>
    /\ UNCHANGED <<accounts, nextToken, expired, stubVars, passes, pageVars,
                   env, admin>>

(***************************************************************************)
(* Specifications of the App: startup over every configuration, and the    *)
(* routes over a session that signs in and out                             *)
(***************************************************************************)
NextStartup ==
    \/ LoadModule
    \/ DismissNotice
    \/ MountApp
    \/ \E path \in Paths : NavigateTo(path)
    \/ \E path \in Paths : EnterUrl(path)

InitStartup ==
    /\ initState = "Initializing"
    /\ accounts \in {<<>>, <<"alice">>}
    /\ graphClient = None
    /\ nextToken = 0
    /\ expired = {}
    /\ proc = [p \in Procs |-> IdleProc]
    /\ directory = InitialDirectory
    /\ lastUpdate = None
    /\ passes = <<>>
    /\ page = InitialPage
    /\ handler = IdleHandler
    /\ retired = {}
    /\ env \in Envs
    /\ \E b \in Builds : app = [InitialApp EXCEPT !.build = b]
    /\ admin = InitialAdmin

SpecStartup == InitStartup /\ [][NextStartup]_vars

NextApp ==
    \/ NextStartup
    \/ InitializeDone
    \/ HandleLogin
    \/ HandleTestLogout
    \/ HandleGetProfile
    \/ ResumeTestPage
    \/ HandleAppLogout
    \/ ResumeAppLogout
    \/ EnsureInitialized(Caller)
    \/ \E u \in Users : LoginPopupOk(Caller, u)
    \/ \E e \in PopupErrors : LoginPopupFail(Caller, e)
    \/ LogoutPopupOk(Caller)
    \/ \E e \in PopupErrors : LogoutPopupFail(Caller, e)
    \/ AcquireTokenSilentOk(Caller)
    \/ \E e \in SilentErrors : AcquireTokenSilentFail(Caller, e)
    \/ AcquireTokenPopupOk(Caller)
    \/ \E e \in PopupErrors : AcquireTokenPopupFail(Caller, e)
    \/ GetMeOk(Caller)
    \/ \E e \in RethrownFailures : HttpFail(Caller, e)

\* a configuration that lacks the tenant identifier
InvalidEnv == [ValidEnv EXCEPT !.VITE_AZURE_TENANT_ID = None]

InitApp ==
    /\ initState = "Initializing"
    /\ accounts \in {<<>>, <<"alice">>}
    /\ graphClient = None
    /\ nextToken = 0
    /\ expired = {}
    /\ proc = [p \in Procs |-> IdleProc]
    /\ directory = InitialDirectory
    /\ lastUpdate = None
    /\ passes = <<>>
    /\ page = InitialPage
    /\ handler = IdleHandler
    /\ retired = {}
    /\ env \in {ValidEnv, InvalidEnv}
    /\ \E b \in Builds : app = [InitialApp EXCEPT !.build = b]
    /\ admin = InitialAdmin

SpecApp == InitApp /\ [][NextApp]_vars

(***************************************************************************)
(* Specification of the session manager and the client cache, with two     *)
(* concurrent callers                                                      *)
(***************************************************************************)
Next ==
    \/ InitializeDone
    \/ \E p \in Procs : CallApi(p, "getCurrentUserProfile", None)
    \/ \E p \in Procs, k \in {"login", "logout"} : CallSession(p, k)
    \/ \E p \in Procs : EnsureInitialized(p)
    \/ \E p \in Procs : AcquireTokenSilentOk(p)
    \/ \E p \in Procs, e \in SilentErrors : AcquireTokenSilentFail(p, e)
    \/ \E p \in Procs : AcquireTokenPopupOk(p)
    \/ \E p \in Procs, e \in PopupErrors : AcquireTokenPopupFail(p, e)
    \/ \E p \in Procs, u \in Users : LoginPopupOk(p, u)
    \/ \E p \in Procs, e \in PopupErrors : LoginPopupFail(p, e)
    \/ \E p \in Procs : LogoutPopupOk(p)
    \/ \E p \in Procs, e \in PopupErrors : LogoutPopupFail(p, e)
    \/ \E p \in Procs : GetMeOk(p)
    \/ \E p \in Procs, e \in RethrownFailures : HttpFail(p, e)
    \/ \E p \in Procs : Return(p)
    \/ \E n \in 1..MaxTokens : ExpireToken(n)

Spec == Init /\ [][Next]_vars


(***************************************************************************)
(* Claims about the session manager and the client cache (Spec)            *)
(***************************************************************************)
IsConsentRequired(res) ==
    res.t = "err" /\ res.err.cls = "InteractionRequiredAuthError"

\* C1: getAccessToken invokes the interactive consent prompt exactly when the
\* silent attempt failed with the interaction-required error, and then with
\* the scope set and the account of the silent attempt; after any other
\* silent failure no prompt is invoked and the call ends with that very error.
C1_FallbackOnlyOnConsentRequired ==
    \A p \in Procs :
      LET r == proc[p] IN
        /\ r.popupReq # None =>
              /\ IsConsentRequired(r.silentRes)
              /\ r.popupReq.scopes = r.silentReq.scopes
              /\ r.popupReq.account = r.silentReq.account
        /\ IsConsentRequired(r.silentRes) => r.popupReq # None
        /\ (r.silentRes.t = "err" /\ ~IsConsentRequired(r.silentRes)) =>
              /\ r.popupReq = None
              /\ r.pc = "done"
              /\ r.out = Err(r.silentRes.err)

\* one call is in the consent prompt after a consent-required failure while
\* another has ended with a generic silent failure
C1_Witness ==
    \E p, q \in Procs :
      /\ proc[p].pc = "popup" /\ IsConsentRequired(proc[p].silentRes)
      /\ proc[q].pc = "done" /\ proc[q].silentRes.t = "err"
      /\ ~IsConsentRequired(proc[q].silentRes)

\* C2: when the silent acquisition succeeds for the cached account, the call
\* continues with exactly that token and has invoked neither acquireTokenPopup
\* nor loginPopup.
C2_SilentSuccessNeverPrompts ==
    \A p \in Procs :
      LET r == proc[p] IN
        r.silentRes.t = "ok" =>
          /\ r.silentReq.account = Account(r.silentRes.val.account)
          /\ r.client = r.silentRes.val
          /\ r.popupReq = None
          /\ r.loginReq = None
          /\ r.pc \in {"http", "done"}

\* a call whose silent acquisition succeeded has run to completion
C2_Witness ==
    \E p \in Procs :
      /\ proc[p].silentRes.t = "ok" /\ proc[p].pc = "done" /\ proc[p].out.t = "ok"

\* C3: every scope set sent by token acquisition, silent or interactive, is a
\* subset of the scope set login sends (and of the scope set of any login
\* request in progress).
C3_TokenScopesWithinLoginScopes ==
    \A p \in Procs :
      \A req \in {proc[p].silentReq, proc[p].popupReq} \ {None} :
         /\ req.scopes \subseteq LoginScopes
         /\ \A q \in Procs :
              proc[q].loginReq # None => req.scopes \subseteq proc[q].loginReq.scopes

\* a login has been made by one caller while the other is in the interactive
\* fallback of a token acquisition
C3_Witness ==
    \E p, q \in Procs :
      /\ proc[q].loginReq # None /\ proc[q].pc = "done" /\ proc[q].out.t = "ok"
      /\ proc[p].silentReq # None /\ proc[p].popupReq # None

\* one step of the client cache, as C4 states it
C4_Step ==
    /\ \A p \in Procs :
         \* an operation that starts when a client exists takes that client
         \* and acquires no token
         /\ (proc[p].pc = "idle" /\ proc'[p].pc # "idle" /\ graphClient # None
                /\ proc'[p].kind \notin {"login", "logout"}) =>
               /\ proc'[p].sawClient
               /\ proc'[p].client = graphClient
               /\ proc'[p].pc = "http"
         /\ proc'[p].sawClient =>
               /\ proc'[p].pc \in {"http", "done"}
               /\ proc'[p].silentReq = None
               /\ proc'[p].popupReq = None
         /\ (proc[p].sawClient /\ proc'[p] # proc[p]) =>
               /\ nextToken' = nextToken
               /\ graphClient' = graphClient
         \* with the captured token expired, the request ends in a 401
         /\ (proc[p].sawClient /\ proc[p].pc = "http" /\ proc'[p].pc = "done"
                /\ proc[p].client.id \in expired) =>
               /\ proc'[p].out.t = "err"
               /\ proc'[p].out.err.statusCode = 401
    \* the client is only ever set by a first use that acquired a token
    /\ graphClient' # graphClient =>
         \E p \in Procs :
           /\ ~proc[p].sawClient
           /\ proc[p].pc \in {"silent", "popup"}
           /\ proc'[p].pc = "http"
           /\ graphClient' = proc'[p].client
           /\ nextToken' = nextToken + 1

\* C4: the client is created lazily by a first use and then served from the
\* cache: an operation started once a client exists never acquires a token,
\* uses the captured token, and fails with a 401 once that token has expired.
C4_ClientCachedWithOneToken == [][C4_Step]_vars

\* an operation that took the cached client has failed with a 401 on the
\* expired token, and the cache still holds that token
C4_Witness ==
    \E p \in Procs :
      /\ proc[p].sawClient /\ proc[p].pc = "done"
      /\ proc[p].client.id \in expired
      /\ proc[p].out.t = "err" /\ proc[p].out.err.statusCode = 401
      /\ graphClient = proc[p].client


(***************************************************************************)
(* Claims about the directory client operations (SpecDir)                  *)
(***************************************************************************)
\* the calls of an operation that have ended after catching an error
Failed(kind) ==
    { p \in Procs : proc[p].kind = kind /\ proc[p].pc = "done" /\ proc[p].caught # None }

StartsWith(msg, prefix) ==
    Len(msg) >= Len(prefix) /\ SubSeq(msg, 1, Len(prefix)) = prefix

NamesMissingTapGrant(err) ==
    /\ StartsWith(err.message, <<"Permission", "denied.">>)
    /\ Includes(err.message, <<"UserAuthenticationMethod.ReadWrite.All">>)

InstructsToSignInAgain(err) ==
    /\ StartsWith(err.message, <<"Authentication", "failed.">>)
    /\ Includes(err.message, <<"sign", "out", "and", "sign", "back", "in">>)

\* C5 as stated: 403 gives the permission-denied error naming
\* UserAuthenticationMethod.ReadWrite.All, 401 the session-expired error, and
\* every other failure a generic wrapped error; a failed call never returns
\* normally.
C5_EveryOtherFailureWrapped ==
    \A p \in Failed("createTemporaryAccessPass") :
      LET e == proc[p].caught.err
          out == proc[p].out
      IN  /\ out.t = "err"
          /\ e.statusCode = 403 => NamesMissingTapGrant(out.err)
          /\ e.statusCode = 401 => InstructsToSignInAgain(out.err)
          /\ e.statusCode \notin {401, 403} =>
                /\ out.err.cls = "Error"
                /\ StartsWith(out.err.message, <<"Failed", "to", "generate", "TAP:">>)

\* C5 (amended): 403 gives the permission-denied error naming
\* UserAuthenticationMethod.ReadWrite.All, 401 the session-expired error, any
\* other failure that carries a message the wrapped error "Failed to generate
\* TAP: <message>", and a failure without a message is rethrown as it is; a
\* failed call never returns normally.
C5_FailureMapping ==
    \A p \in Failed("createTemporaryAccessPass") :
      LET e == proc[p].caught.err
          out == proc[p].out
      IN  /\ out.t = "err"
          /\ e.statusCode = 403 => NamesMissingTapGrant(out.err)
          /\ e.statusCode = 401 => InstructsToSignInAgain(out.err)
          /\ (e.statusCode \notin {401, 403} /\ Len(e.message) > 0) =>
                /\ out.err.cls = "Error"
                /\ out.err.statusCode = 0
                /\ out.err.message = <<"Failed", "to", "generate", "TAP:">> \o e.message
          /\ (e.statusCode \notin {401, 403} /\ Len(e.message) = 0) => out.err = e

\* a createTemporaryAccessPass call has failed on a response without an error
\* message and has rethrown it
C5_Witness ==
    \E p \in Failed("createTemporaryAccessPass") :
      /\ proc[p].caught.err.statusCode = 500
      /\ proc[p].caught.err.message = <<>>
      /\ proc[p].out = Err(proc[p].caught.err)

IsAlreadyExists(e) ==
    e.statusCode = 400 /\ Includes(e.message, <<"already", "exists">>)

\* C6: a 403 failure of grantAppRoleToServicePrincipal gives the
\* permission-denied error naming Application.ReadWrite.All and
\* AppRoleAssignment.ReadWrite.All whatever its message; a 400 failure whose
\* message contains "already exists" gives the already-granted error; no other
\* failure gives the already-granted error, and a wrapped error differs from it.
C6_GrantFailureMapping ==
    \A p \in Failed("grantAppRoleToServicePrincipal") :
      LET e == proc[p].caught.err
          out == proc[p].out
      IN  /\ out.t = "err"
          /\ e.statusCode = 403 =>
                /\ StartsWith(out.err.message, <<"Permission", "denied.">>)
                /\ Includes(out.err.message, <<"Application.ReadWrite.All">>)
                /\ Includes(out.err.message, <<"AppRoleAssignment.ReadWrite.All">>)
          /\ IsAlreadyExists(e) <=>
                out.err.message = <<"This", "permission", "has", "already", "been",
                                    "granted", "to", "the", "service", "principal.">>
          /\ (e.statusCode # 403 /\ ~IsAlreadyExists(e) /\ Len(e.message) > 0) =>
                StartsWith(out.err.message, <<"Failed", "to", "grant", "permission:">>)

\* a grant has failed with 400 "already exists" and ended in the
\* already-granted error
C6_Witness ==
    \E p \in Failed("grantAppRoleToServicePrincipal") :
      /\ IsAlreadyExists(proc[p].caught.err)
      /\ StartsWith(proc[p].out.err.message, <<"This", "permission", "has", "already">>)

EnrichmentFields ==
    {"resourceDisplayName", "appRoleValue", "appRoleDisplayName", "appRoleDescription"}

\* the calls of getServicePrincipalAppRoleAssignments whose primary request
\* answered and that have ended
Enriching == { p \in Procs : proc[p].kind = "getServicePrincipalAppRoleAssignments"
                             /\ proc[p].resp # None }

\* C7: once the primary request of getServicePrincipalAppRoleAssignments has
\* answered, the operation cannot fail; it returns one record per assignment in
\* the order of the answer, the assignment itself where its lookup failed and
\* the assignment extended by the four enrichment fields everywhere else,
\* whatever the order in which the lookups settle.
C7_EnrichmentDegradesPerItem ==
    \A p \in Enriching :
      LET assignments == proc[p].resp.val
          out == proc[p].out
      IN  /\ proc[p].caught = None
          /\ proc[p].pc = "done" =>
                /\ out.t = "ok"
                /\ Len(out.val) = Len(assignments)
                /\ \A i \in 1..Len(assignments) :
                     IF i \in proc[p].failed
                       THEN out.val[i] = assignments[i]
                       ELSE /\ DOMAIN out.val[i] =
                                  DOMAIN assignments[i] \cup EnrichmentFields
                            /\ \A f \in DOMAIN assignments[i] :
                                  out.val[i][f] = assignments[i][f]
                            /\ out.val[i].resourceDisplayName =
                                  Resource(assignments[i].resourceId).displayName
                            /\ out.val[i].appRoleValue \in
                                  {"Unknown"} \cup
                                    { GraphAppRoles[k].value : k \in
                                        { k \in 1..Len(GraphAppRoles) :
                                            /\ assignments[i].resourceId = "sp-graph"
                                            /\ GraphAppRoles[k].id =
                                                  assignments[i].appRoleId } }

\* three assignments were returned and only the lookup of the second failed
C7_Witness ==
    \E p \in Enriching :
      /\ proc[p].pc = "done"
      /\ Len(proc[p].resp.val) = 3
      /\ proc[p].failed = {2}
      /\ proc[p].out.val[2] = proc[p].resp.val[2]
      /\ proc[p].out.val[1].appRoleValue = "User.ReadWrite.All"
      /\ proc[p].out.val[3].appRoleValue = "Unknown"

\* the records of a list that are managed identities: by type, or by the
\* legacy tag when the record has tags
Matching(list) ==
    { i \in 1..Len(list) :
        \/ list[i].servicePrincipalType = "ManagedIdentity"
        \/ (list[i].tags # None /\ \E k \in 1..Len(list[i].tags.val) :
                                      list[i].tags.val[k] = LegacyTag) }

\* C8: listManagedIdentities returns exactly the records of the service
\* principal list whose type is ManagedIdentity or whose tags contain the
\* legacy tag, in their original order.
C8_ManagedIdentitiesExactlyMatching ==
    \A p \in Procs :
      (proc[p].kind = "listManagedIdentities" /\ proc[p].pc = "done"
          /\ proc[p].out.t = "ok") =>
        LET list == IF proc[p].resp = None THEN <<>> ELSE proc[p].resp.val
            out == proc[p].out.val
        IN  /\ Len(out) = Cardinality(Matching(list))
            /\ \E pos \in [1..Len(out) -> 1..Len(list)] :
                 /\ \A k \in 1..Len(out) : pos[k] \in Matching(list) /\ out[k] = list[pos[k]]
                 /\ \A k, h \in 1..Len(out) : k < h => pos[k] < pos[h]

\* a list of three holds a managed identity, an application with the legacy
\* tag and an application without tags: the first two are returned
C8_Witness ==
    \E p \in Procs :
      /\ proc[p].kind = "listManagedIdentities" /\ proc[p].pc = "done"
      /\ proc[p].out.t = "ok" /\ proc[p].resp # None
      /\ Len(proc[p].resp.val) = 3 /\ Len(proc[p].out.val) = 2
      /\ proc[p].resp.val[1] = [servicePrincipalType |-> "Application", tags |-> None]
      /\ proc[p].resp.val[2] =
            [servicePrincipalType |-> "Application", tags |-> Some(<<LegacyTag>>)]
      /\ proc[p].resp.val[3] =
            [servicePrincipalType |-> "ManagedIdentity", tags |-> Some(<<"HideApp">>)]
      /\ proc[p].out.val = <<proc[p].resp.val[2], proc[p].resp.val[3]>>


\* the two typed failures of the read operations, told apart by their message
IsNotFound(err) ==
    err.cls = "Error" /\ StartsWith(err.message, <<"Service", "principal", "not", "found.">>)

IsPermissionDeniedRead(err) ==
    /\ err.cls = "Error"
    /\ StartsWith(err.message, <<"Permission", "denied.">>)
    /\ Includes(err.message, <<"Application.Read.All">>)

ReadOperations ==
    { "getServicePrincipalInfo", "getServicePrincipalAppRoleAssignments",
      "listServicePrincipals", "listManagedIdentities" }

\* C17: a failed getServicePrincipalInfo gives not-found when the status is
\* 404 and permission-denied when it is 403; a failed primary call of
\* getServicePrincipalAppRoleAssignments, a failed listServicePrincipals and a
\* failed listManagedIdentities give permission-denied when the status is 403
\* (the two list operations the same error, naming the listing); a failure
\* with any other status leaves each operation as the error that was caught;
\* and the operation fails if and only if a call of it failed.
C17_ReadFailureMapping ==
    \A p \in Procs :
      (proc[p].pc = "done" /\ proc[p].kind \in ReadOperations) =>
        LET kind == proc[p].kind
            out == proc[p].out
        IN  /\ out.t = "err" <=> proc[p].caught # None
            /\ proc[p].caught # None =>
                 LET e == proc[p].caught.err
                 IN  /\ (kind = "getServicePrincipalInfo" /\ e.statusCode = 404)
                           => IsNotFound(out.err)
                     /\ e.statusCode = 403
                           => /\ IsPermissionDeniedRead(out.err)
                              /\ ~IsNotFound(out.err)
                              /\ kind \in {"listServicePrincipals", "listManagedIdentities"}
                                   => out.err = PermissionDeniedList
                     /\ (e.statusCode # 403
                           /\ ~(kind = "getServicePrincipalInfo" /\ e.statusCode = 404))
                           => out.err = e

\* a lookup of a service principal was answered 404 and ended in not-found
C17_Witness ==
    \E p \in Failed("getServicePrincipalInfo") :
      /\ proc[p].caught.err.statusCode = 404
      /\ IsNotFound(proc[p].out.err)


\* the order of the awaits of one invocation of a directory operation
PcRank ==
    [ idle |-> 0, init |-> 1, silent |-> 2, popup |-> 3, http |-> 4,
      post |-> 5, enrich |-> 5, done |-> 6 ]

\* what C19 says of one step
C19_Step ==
    \A p \in Procs :
      LET a == proc[p]
          b == proc'[p]
      IN  /\ b.pc = "idle" => a.pc \in {"idle", "done"}
          /\ (a.pc # b.pc /\ b.pc # "idle") => PcRank[b.pc] > PcRank[a.pc]
          /\ (a.pc = b.pc /\ a # b) =>
                /\ a.pc = "enrich"
                /\ b.resp = a.resp
                /\ b.pending \subseteq a.pending
                /\ b.pending # a.pending
          /\ (a.pc = "popup" /\ b.pc # "popup") =>
                \/ b.pc = "http"
                \/ /\ b.pc = "done"
                   /\ b.caught # None
                   /\ b.caught.err \in PopupErrors
                   /\ b.out.t = "err"

\* C19: within one invocation the awaits are passed in order and never again:
\* at most one acquireTokenSilent, then at most one acquireTokenPopup, whose
\* failure ends the invocation with that error; each request of a directory
\* operation (its GET or lookup, its POST, each resource lookup of the
\* enrichment) is issued once and not reissued, whatever it answers.
C19_NoRetry == [][C19_Step]_vars

\* an operation has ended with the failure of its popup fallback, after one
\* silent attempt that asked for consent
C19_Witness ==
    \E p \in Procs :
      /\ proc[p].pc = "done"
      /\ IsConsentRequired(proc[p].silentRes)
      /\ proc[p].caught # None
      /\ proc[p].caught.err \in PopupErrors


\* what C28 says of one step
C28_Step ==
    \A p \in Procs :
      LET a == proc[p]
          b == proc'[p]
      IN  /\ (a.pc \in {"init", "silent", "popup"} /\ b.pc = "done") =>
                /\ b.out.t = "err"
                /\ b.caught # None
                /\ b.caught.err \in {NoActiveAccount} \cup SilentErrors \cup PopupErrors
                /\ b.client = None
                /\ graphClient = None
                /\ graphClient' = None
          /\ (a.pc = "idle" /\ b.pc # "idle" /\ graphClient = None) => b.pc = "init"
          /\ b.pc \in {"http", "post", "enrich"} => b.client # None

\* C28: an operation whose token acquisition fails (no account, a silent
\* failure without fallback, or a failed popup) ends in failure without a
\* client having been stored and without having sent a request; an operation
\* started while no client is stored begins with the token acquisition.
C28_FailedAcquisitionCachesNothing == [][C28_Step]_vars

\* an operation has failed in the silent acquisition, without fallback, and
\* no client is stored
C28_Witness ==
    \E p \in Procs :
      /\ proc[p].pc = "done"
      /\ proc[p].silentRes.t = "err"
      /\ ~IsConsentRequired(proc[p].silentRes)
      /\ proc[p].client = None
      /\ graphClient = None

\* what C29 says of one step of a grant
C29_Step ==
    \A p \in Procs :
      LET a == proc[p]
          b == proc'[p]
          grant == "grantAppRoleToServicePrincipal"
      IN  /\ (b.kind = grant /\ a.pc # "post" /\ b.pc = "post") =>
                /\ a.pc = "http" /\ a.kind = grant
                /\ b.resp.principalId = a.arg.servicePrincipalObjectId
                /\ \E body \in GraphSPLookups :
                      /\ body # None /\ Len(body.val) > 0
                      /\ b.resp.resourceId = body.val[1].id
                      /\ \E i \in 1..Len(body.val[1].appRoles) :
                            /\ body.val[1].appRoles[i].value = a.arg.appRoleName
                            /\ body.val[1].appRoles[i].id = b.resp.appRoleId
          /\ (a.kind = grant /\ a.pc = "http" /\ b.pc = "done") => b.out.t = "err"
          /\ (a.kind = grant /\ a.pc # "done" /\ b.pc = "done" /\ b.out.t = "ok") =>
                a.pc = "post" /\ b.out.val = a.resp

\* C29: a grant posts the role assignment only after the lookup of the
\* directory API's service principal answered with a principal and the role
\* was found among its roles by value; the posted body pairs the target
\* principal with that principal's id and that role's id; a lookup that fails
\* or finds nothing ends the grant with a failure and no post
C29_GrantPostsOnlyAfterLookups == [][C29_Step]_vars

C29_Witness ==
    \E p \in Procs :
      /\ proc[p].kind = "grantAppRoleToServicePrincipal"
      /\ proc[p].pc = "done"
      /\ proc[p].out.t = "ok"
      /\ proc[p].out.val = [ principalId |-> proc[p].arg.servicePrincipalObjectId,
                             resourceId |-> "sp-graph", appRoleId |-> "role-uam" ]


\* what C14 says of one step
C14_Step ==
    \A p \in Procs :
      LET a == proc[p]
          b == proc'[p]
      IN  /\ (a.kind = "logout" /\ a.pc = "init" /\ b.pc # "init") =>
               IF accounts = <<>>
                 THEN b.pc = "done" /\ b.out = Ok(None) /\ accounts' = accounts
                 ELSE b.pc = "logoutPopup" /\ b.arg = Account(accounts[1])
          /\ (b.pc = "logoutPopup" /\ a.pc # "logoutPopup") =>
               (a.pc = "init" /\ a.kind = "logout")
          /\ (a.pc = "logoutPopup" /\ b.pc # "logoutPopup") => b.pc = "done"

\* C14: logout() without a cached account completes without error and without
\* calling logoutPopup; with cached accounts it calls logoutPopup once, for
\* the first of them, and nothing else calls it.
C14_LogoutNoOpWithoutAccount == [][C14_Step]_vars

\* a logout() has completed without a cached account and without a sign-out
C14_Witness ==
    \E p \in Procs :
      /\ proc[p].kind = "logout" /\ proc[p].pc = "done"
      /\ proc[p].out = Ok(None)
      /\ proc[p].arg = None
      /\ accounts = <<>>

\* C15: isAuthenticated() is true exactly when an account is cached, which is
\* exactly when getAccount() returns an account, the first cached one.
C15_AuthenticatedIffAccountCached ==
    /\ isAuthenticated <=> (accounts # <<>>)
    /\ isAuthenticated <=> (getAccount # None)
    /\ accounts # <<>> => getAccount = Account(Head(accounts))

\* the last account has signed out while the client built for it is still
\* cached: no session is reported
C15_Witness ==
    /\ accounts = <<>>
    /\ graphClient # None
    /\ ~isAuthenticated

\* the awaits of login, logout and getAccessToken on the authentication
\* library
LibraryCalls == {"silent", "popup", "loginPopup", "logoutPopup"}

\* what C20 says of one step
C20_Step ==
    /\ initState' # initState => (initState = "Initializing" /\ initState' = "Ready")
    /\ \A p \in Procs :
          LET a == proc[p]
              b == proc'[p]
          IN  /\ (a.pc = "init" /\ b.pc # "init") => initState = "Ready"
              /\ (b.pc \in LibraryCalls /\ a.pc # b.pc) => initState = "Ready"

\* C20: the setup state of the manager, Initializing once it is constructed,
\* changes only from Initializing to Ready, and so once; a login, logout or
\* token acquisition leaves its wait on ensureInitialized (which is where it
\* reads the cached accounts), and is suspended on a popup or on the silent
\* acquisition, only while the manager is Ready.
C20_SetupGate ==
    /\ [](/\ initState \in {"Initializing", "Ready"}
          /\ \A p \in Procs : proc[p].pc \in LibraryCalls => initState = "Ready")
    /\ [][C20_Step]_vars

\* the manager is Ready, one caller is in the sign-in popup and the other in
\* the silent acquisition
C20_Witness ==
    /\ initState = "Ready"
    /\ \E p, q \in Procs : proc[p].pc = "loginPopup" /\ proc[q].pc = "silent"

\* what C22 says of one step
C22_Step ==
    LET was == Len(accounts) > 0
        is == Len(accounts') > 0
    IN  /\ (~was /\ is) =>
              \E p \in Procs : /\ proc[p].kind = "login" /\ proc[p].pc = "loginPopup"
                               /\ proc'[p].pc = "done" /\ proc'[p].out.t = "ok"
        /\ (was /\ ~is) =>
              \E p \in Procs : /\ proc[p].kind = "logout" /\ proc[p].pc = "logoutPopup"
                               /\ proc'[p].pc = "done" /\ proc'[p].out.t = "ok"
        /\ \A p \in Procs :
              /\ (/\ proc[p].kind = "login" /\ proc[p].pc # "done"
                  /\ proc'[p].pc = "done" /\ proc'[p].out.t = "err")
                    => accounts' = accounts
              /\ (proc'[p] # proc[p] /\ {proc[p].kind, proc'[p].kind} \cap {"login", "logout"} = {})
                    => accounts' = accounts
        /\ proc' = proc => accounts' = accounts

\* C22: the session becomes Authenticated only in the step in which a login
\* succeeds and Unauthenticated only in the step in which a logout succeeds;
\* a login that fails leaves the cached accounts as they were, and so does
\* every step of any other operation and every step that is not a step of
\* an operation (the queries getAccount and isAuthenticated change nothing).
C22_SessionChangesOnlyByLoginLogout == [][C22_Step]_vars

\* a logout has emptied the account cache while the login of the other
\* caller has failed
C22_Witness ==
    /\ accounts = <<>>
    /\ \E p, q \in Procs :
          /\ proc[p].kind = "logout" /\ proc[p].pc = "done" /\ proc[p].out.t = "ok"
          /\ proc[p].arg # None
          /\ proc[q].kind = "login" /\ proc[q].pc = "done" /\ proc[q].out.t = "err"

\* the callers that are acquiring a token for a client to be built
AcquiringToken == { p \in Procs : proc[p].pc \in {"silent", "popup"} }

\* C27: operations of the directory client that are started concurrently
\* before a client exists share one token acquisition and one client: no two
\* callers are acquiring a token at the same time, and a client that has
\* been stored is not replaced by another.
C27_SingleClientCreation ==
    /\ [](Cardinality(AcquiringToken) <= 1)
    /\ [][graphClient # None => graphClient' = graphClient]_vars

(***************************************************************************)
(* Claims about the profile operations (SpecProfile)                       *)
(***************************************************************************)
\* C9: once updateUserProfile(id, data) has succeeded against the stub, a
\* getUserProfile(id) returns a profile whose fields named in data have the new
\* values and whose other fields are as before the update, and the profiles
\* of the other users are as before the update.
C9_UpdateThenGetRoundTrip ==
    lastUpdate # None =>
      /\ \A u \in Users \ {lastUpdate.userId} : directory[u] = lastUpdate.before[u]
      /\ \A p \in Procs :
           (proc[p].kind = "getUserProfile" /\ proc[p].pc = "done"
               /\ proc[p].out.t = "ok") =>
             LET id == proc[p].arg.userId
                 got == proc[p].out.val
             IN  IF id = lastUpdate.userId
                   THEN \A f \in ProfileFields :
                          got[f] = IF f \in DOMAIN lastUpdate.data
                                     THEN lastUpdate.data[f]
                                     ELSE lastUpdate.before[id][f]
                   ELSE got = lastUpdate.before[id]

\* bob's job title alone was updated, and a later getUserProfile("bob") shows
\* the new title next to the old department
C9_Witness ==
    /\ lastUpdate # None
    /\ lastUpdate.userId = "bob"
    /\ DOMAIN lastUpdate.data = {"jobTitle"}
    /\ \E p \in Procs :
         /\ proc[p].kind = "getUserProfile" /\ proc[p].pc = "done"
         /\ proc[p].out.t = "ok"
         /\ proc[p].arg.userId = "bob"
         /\ proc[p].out.val.jobTitle = "X"
         /\ proc[p].out.val.department = "B"
         /\ proc[p].out.val.id = "bob"

(***************************************************************************)
(* Claims about TemporaryAccessPassPage (SpecTap)                          *)
(***************************************************************************)
\* the secrets in the memory of the page: the one it holds for display and
\* the ones a suspended handler is about to store
SecretsInResponse(r) ==
    IF ReportsSecret(r.body)
      THEN {IF r.body.json.val.temporaryAccessPass # None
              THEN r.body.json.val.temporaryAccessPass.val
              ELSE r.body.json.val.tap.val}
      ELSE {}

PageSecrets ==
    Held(page)
      \cup (IF handler.pc = "text" THEN SecretsInResponse(handler.response) ELSE {})
      \cup (IF handler.pc = "generate" /\ proc[Caller].pc = "done"
                 /\ proc[Caller].out.t = "ok"
              THEN {proc[Caller].out.val.temporaryAccessPass} ELSE {})

\* C10: show once.  The page holds at most one generated secret at a time,
\* and a secret that was held when its view was replaced (a new search was
\* started, a search result was selected, or "Generate Another" was pressed)
\* is cleared by that action and is never held for display again.
C10_ShowOnce ==
    /\ Cardinality(PageSecrets) <= 1
    /\ Held(page) \cap retired = {}

\* a first secret was cleared when its view was replaced, and the page now
\* displays a second one for a selected user
C10_Witness ==
    /\ retired # {}
    /\ page.selectedUser # None
    /\ page.tapResult # None
    /\ page.tapResult.val.temporaryAccessPass \notin retired

\* a response from which the claim lets a pass be stored: successful, not
\* empty, valid JSON, with the secret under one of the two names
Accepted(r) ==
    /\ r.ok
    /\ Trim(r.body.chars) # <<>>
    /\ r.body.json # None
    /\ r.body.json.val # JsonNull
    /\ r.body.json.val.temporaryAccessPass # None \/ r.body.json.val.tap # None

\* what C18 says of one step
C18_Step ==
    /\ (handler'.pc = "fetch" /\ handler' # handler) =>
          /\ handler.pc = "idle"
          /\ page.selectedUser # None
          /\ handler'.response =
                [method |-> "POST", body |-> [entraObjectId |-> page.selectedUser.val.id]]
    /\ (handler.pc \in {"fetch", "text"} /\ handler'.pc = "idle") =>
          LET r == handler.response
              stored == page'.tapResult
          IN  /\ ~page'.loading
              /\ page.tapResult = None
              /\ stored # None =>
                    /\ handler.pc = "text"
                    /\ Accepted(r)
                    /\ stored.val.temporaryAccessPass =
                          IF r.body.json.val.temporaryAccessPass # None
                            THEN r.body.json.val.temporaryAccessPass.val
                            ELSE r.body.json.val.tap.val
                    /\ page'.error = None
              /\ stored = None =>
                    /\ page'.error # None
                    /\ page'.error.val # <<>>

\* C18: the webhook path sends one POST whose body is the selected user's id
\* alone and never sends it again for the same press; a pass is stored only
\* from a successful, non-empty, valid JSON response that carries the secret
\* as temporaryAccessPass or else as tap, temporaryAccessPass first; in every
\* other outcome no pass is stored and an error is shown.
C18_WebhookOneRequestAndOutcome == [][C18_Step]_vars

\* a pass reported by the webhook, with the lifetime it reported, is displayed
C18_Witness ==
    /\ handler.pc = "idle"
    /\ ~page.loading
    /\ page.error = None
    /\ page.tapResult # None
    /\ page.tapResult.val.lifetimeInMinutes = Num(30)
    /\ passes # <<>>

\* C24: every call of createTemporaryAccessPass made by the page carries a
\* user identifier that is not empty and a lifetime that is a positive
\* integer, whatever text the lifetime field held when Generate was pressed.
C24_GenerateArgumentsValid ==
    \A p \in Procs :
      proc[p].kind = "createTemporaryAccessPass" =>
        /\ proc[p].arg.userId # ""
        /\ proc[p].arg.lifetimeInMinutes.t = "num"
        /\ proc[p].arg.lifetimeInMinutes.val > 0

\* C25: a secret that the page displays was issued for the user the page
\* shows as "Selected User".
C25_SecretOfSelectedUser ==
    page.tapResult # None =>
      /\ page.selectedUser # None
      /\ page.tapResult.val.temporaryAccessPass \in DOMAIN passes
      /\ passes[page.tapResult.val.temporaryAccessPass].userId
            = page.selectedUser.val.id

(***************************************************************************)
(* Claims about the App (SpecApp, SpecStartup)                             *)
(***************************************************************************)
\* C11: route protection.  A page other than the home page is on screen only
\* if the session manager reported a session when it was rendered; a visitor
\* without a session, and a visitor of an unknown path, ends on "/"; and "/"
\* always shows the home page.
C11_RouteProtection ==
    app.phase = "mounted" =>
      /\ app.screen # "GraphTestPage" => app.authAtRender
      /\ ~app.authAtRender => (app.location = "/" /\ app.screen = "GraphTestPage")
      /\ app.location \in {"/"} \cup DOMAIN LayoutPages
      /\ app.location = "/" => app.screen = "GraphTestPage"

\* C12: when the validation of the configuration at startup has failed, a
\* notice has been shown and startup goes no further: no page is rendered.
C12_InvalidConfigurationAbortsStartup ==
    (app.validation # None /\ app.validation.t = "err") =>
      /\ app.notice # None
      /\ app.phase = "alert"
      /\ app.screen = "none"

\* the required variables that are not set or empty, that are set to white
\* space only, and whether a value is there to be checked for its shape
MissingVars == {v \in DOMAIN env : env[v] = None \/ Len(env[v].val) = 0}

BlankVars ==
    {v \in DOMAIN env \ MissingVars : \A i \in 1..Len(env[v].val) : env[v].val[i] = " "}

InOrder(S) == SelectSeq(RequiredEnvVars, LAMBDA v : v \in S)

\* C13: validateEnvironment returns exactly when the three values are present
\* and not blank, both identifiers have GUID shape and the redirect target
\* parses as a URL.  Otherwise it throws: one error naming all the missing and
\* all the blank variables when there are any; else the error of the
\* application identifier's shape, else of the tenant identifier's shape,
\* else of the redirect target.
C13_ValidateEnvironment ==
    app.validation # None =>
      LET result == app.validation
          present == MissingVars = {} /\ BlankVars = {}
          clientOk == GuidRegexTest(env.VITE_AZURE_CLIENT_ID.val)
          tenantOk == GuidRegexTest(env.VITE_AZURE_TENANT_ID.val)
          uriOk == UrlParses(env.VITE_AZURE_REDIRECT_URI.val)
      IN  /\ result.t = "ok" <=> (present /\ clientOk /\ tenantOk /\ uriOk)
          /\ ~present =>
               result = Err(PresenceError(InOrder(MissingVars), InOrder(BlankVars)))
          /\ (present /\ ~clientOk) =>
               /\ result.t = "err"
               /\ result.err.message[1] = "VITE_AZURE_CLIENT_ID"
               /\ result.err.message[2] = "is not a valid GUID:"
          /\ (present /\ clientOk /\ ~tenantOk) =>
               /\ result.t = "err"
               /\ result.err.message[1] = "VITE_AZURE_TENANT_ID"
               /\ result.err.message[2] = "is not a valid GUID:"
          /\ (present /\ clientOk /\ tenantOk /\ ~uriOk) =>
               /\ result.t = "err"
               /\ result.err.message[1] = "VITE_AZURE_REDIRECT_URI"
               /\ result.err.message[2] = "is not a valid URL:"

\* the validation has thrown for a configuration whose two identifiers are
\* both malformed and whose redirect target is fine: the application
\* identifier is the one reported
C13_Witness ==
    /\ app.validation # None
    /\ env.VITE_AZURE_CLIENT_ID = Some(GuidOf("g"))
    /\ env.VITE_AZURE_TENANT_ID = Some(GuidOf("a") \o <<" ">>)
    /\ env.VITE_AZURE_REDIRECT_URI = Some(<<"localhost", ":", "5173">>)
    /\ app.validation.t = "err"
    /\ app.validation.err.message[1] = "VITE_AZURE_CLIENT_ID"


(***************************************************************************)
(* Claims about AdminPage (SpecAdmin)                                      *)
(***************************************************************************)
\* C16: when grantAppRoleToServicePrincipal ends with the "already granted"
\* failure, handleGrantPermission treats it as success: it shows the
\* operator no error and goes on to refresh the principal's info and
\* current permissions.
C16_Step ==
    (/\ admin.pc = "grant"
     /\ admin'.pc # "grant"
     /\ proc[Caller].out = Err(AlreadyGranted))
      => /\ admin'.error = None
         /\ admin'.pc = "grantInfo"
         /\ proc'[Caller].kind = "getServicePrincipalInfo"

C16_AlreadyGrantedIsIdempotentSuccess == [][C16_Step]_vars


\* a step in which the application queries the session: the mount (App's
\* effect reads getAccount, checkAuth and the route guard read
\* isAuthenticated) or the render of another path
QueriesSession ==
    \/ app.phase = "ready" /\ app'.phase = "mounted"
    \/ /\ app.phase = "mounted" /\ app'.phase = "mounted"
       /\ app'.location # app.location

\* C21: the application calls getAccount() and isAuthenticated() only once
\* the initialization of the manager has completed.
C21_Step == QueriesSession => initState = "Ready"

C21_QueriesAfterInitialization == [][C21_Step]_vars


\* C23: an operation of the directory client that is started while an account
\* is signed in, after any sign-outs and sign-ins since the page was loaded,
\* sends its request with a client whose token was acquired for that
\* account.
C23_Step ==
    \A p \in Procs :
      (proc[p].pc # "http" /\ proc'[p].pc = "http" /\ Len(accounts) > 0)
        => proc'[p].client.account = accounts[1]

C23_ClientOfCurrentAccount == [][C23_Step]_vars


\* C26: a grant that AdminPage starts is issued for the service principal
\* whose record the page displays.
C26_Step ==
    (admin.pc # "grant" /\ admin'.pc = "grant") =>
      /\ admin.spInfo # None
      /\ proc'[Caller].arg.servicePrincipalObjectId = admin.spInfo.val.id

C26_GrantForDisplayedPrincipal == [][C26_Step]_vars

\* the user panel of Layout: {userName && ...} with the sign-out button inside
\* ({onLogout && ...}; App passes handleLogout to every Layout)
UserPanel == app.userName

\* C30: whenever a page inside Layout is on screen and a session exists, the
\* layout shows the name of the signed-in account with the sign-out control,
\* also after a sign-in on the home page followed by a navigation without a
\* reload
C30_LayoutShowsOperator ==
    ( /\ app.phase = "mounted"
      /\ \E path \in DOMAIN LayoutPages : app.screen = LayoutPages[path]
      /\ getAccount # None )
      => UserPanel = Some(DisplayedName(getAccount))

=============================================================================
